---- MODULE Spec2Model ----
(***************************************************************************)
(* Waveform simulation and timing engine of the patient-monitor simulator  *)
(* (script.js: class WaveformGenerator, with chaoticGenerator.js and the   *)
(* operator-panel handlers of controlHandlers.js).                         *)
(*                                                                         *)
(* Units.  Times are whole milliseconds (the code keeps seconds in         *)
(* doubles; one logical step is 1/SAMPLE_RATE s = 10 ms).  Interpolated    *)
(* vitals (heart rate, saturation, pressures, temperature) and the ETCO2   *)
(* value are kept in thousandths of their unit, so 75 bpm is 75000.        *)
(* Respiratory rate is in breaths per minute.  Products with the           *)
(* interpolation rate are truncated toward zero to the next thousandth.    *)
(* Infinity and -Infinity of the code are the sentinels Infinity and       *)
(* NegInfinity; sums with Infinity stay Infinity (TAdd).                   *)
(***************************************************************************)
EXTENDS Integers, Sequences, FiniteSets, TLC

(* ------------------------------------------------------------------ *)
(* Program constants                                                   *)
(* ------------------------------------------------------------------ *)
SAMPLE_RATE == 100
GAP_SAMPLES == 10
SHOCK_ARTIFACT_SAMPLES == 15
DEFAULT_VF_HOLD_DURATION == 4
\* VITAL_INTERPOLATION_RATE = 0.3 as the fraction RateNum / RateDen
RateNum == 3
RateDen == 10
\* INTERPOLATION_SNAP_THRESHOLD = 0.1, in thousandths
SnapThreshold == 100
\* Math.max(0.1, interval) of _calculateNextBeatTime, in ms
MinBeatIntervalMs == 100
\* Math.max(0.5, 60.0 / rr) of the breath schedule, in ms
MinBreathIntervalMs == 500
\* DEFAULT_ETCO2_KPA = 5.3 and DEFAULT_RESP_RATE = 15
DEFAULT_ETCO2_KPA == 5300
DEFAULT_RESP_RATE == 15
Infinity == 1000000000
NegInfinity == -Infinity
\* null where a number is expected
JsonNull == 2 * Infinity
StepMs == 1000 \div SAMPLE_RATE

(* ------------------------------------------------------------------ *)
(* Bounds of the model                                                 *)
(* ------------------------------------------------------------------ *)
\* sweep windows, scaled down from 900 and 1500 samples so that a sweep
\* wraps inside the explored time
BUFFER_SIZE == 30
ETCO2_BUFFER_SIZE == 40
\* simulated time explored per run, in ms
MaxRhythmTime == 1200
\* operator / network events per behaviour
MaxOps == 3
\* a callback after a tab suspension, in ms
LongPauseMs == 4000
\* simulated time explored by the long-pause specification, in ms
MaxPauseTime == 4400

(* ------------------------------------------------------------------ *)
(* Small helpers                                                       *)
(* ------------------------------------------------------------------ *)
Max(a, b) == IF a >= b THEN a ELSE b
Min(a, b) == IF a <= b THEN a ELSE b
Abs(a) == IF a >= 0 THEN a ELSE -a
\* t + d on the extended reals of the code
TAdd(t, d) == IF d = Infinity \/ t = Infinity THEN Infinity ELSE t + d
\* n * num / den truncated toward zero
Scale(n, num, den) ==
    IF n >= 0 THEN (n * num) \div den ELSE -(((-n) * num) \div den)
\* a value that JSON null / undefined stands for in the pending snapshots
Null == [isNull |-> TRUE]

(* ------------------------------------------------------------------ *)
(* State                                                               *)
(* ------------------------------------------------------------------ *)
VARIABLES
    monitor,        \* the WaveformGenerator instance (`this` of script.js)
    chaotic,        \* module-level variables of chaoticGenerator.js
    currentRole,    \* networkManager.js: role of this client
    normalBaseHR,   \* rhythm catalog: baseline heart rate of normal sinus
    pc,             \* position inside _animationLoop: "idle" or "loop"
    frameDelta,     \* deltaTimeSeconds of the callback in progress, in ms
    frameSteps,     \* logical steps executed by the callback in progress
    lastOp,         \* the handler or step that produced this state
    boundary,       \* which cycle boundaries the last logical step crossed
    opCount,        \* operator / network events so far
    server,         \* server.js: connections, sessions, last broadcast
    sample,         \* waveformUtils.js: the last waveform point generated
    timers,         \* updateTimeoutId and the timeouts the browser holds
    network         \* networkManager.js: the page's sockets, session and
                    \* reconnection timer, and the messages in flight

engineVars == <<monitor, chaotic, currentRole, normalBaseHR, pc, frameDelta,
                frameSteps, lastOp, boundary, opCount>>

vars == <<monitor, chaotic, currentRole, normalBaseHR, pc, frameDelta,
          frameSteps, lastOp, boundary, opCount, server, sample,
          timers, network>>

(* ------------------------------------------------------------------ *)
(* waveformUtils.js: one point of the ABP and of the ETCO2 waveform    *)
(* Times are ms, pressures thousandths of mmHg, ETCO2 thousandths of   *)
(* kPa, factors thousandths.  Math.exp, Math.sin and the logistic      *)
(* curve are tabulated in thousandths and interpolated linearly.       *)
(* ------------------------------------------------------------------ *)
\* linear interpolation in a table of <<argument, value>> knots with rising
\* arguments; beyond the last knot the last value
TableLookup(table, x) ==
    IF x >= table[Len(table)][1]
    THEN table[Len(table)][2]
    ELSE LET i == CHOOSE k \in 1..(Len(table) - 1) :
                      table[k][1] <= x /\ x < table[k + 1][1]
             x0 == table[i][1]
             y0 == table[i][2]
             x1 == table[i + 1][1]
             y1 == table[i + 1][2]
         IN  y0 + ((y1 - y0) * (x - x0)) \div (x1 - x0)

\* Math.exp(-x / 1000) in thousandths, x >= 0
ExpNeg(x) ==
    TableLookup(<< <<0, 1000>>, <<250, 779>>, <<500, 607>>, <<1000, 368>>,
                   <<1500, 223>>, <<2000, 135>>, <<3000, 50>>, <<4000, 18>>,
                   <<5000, 7>>, <<7000, 1>>, <<9000, 0>> >>, x)

\* Math.sin(q / 1000 * PI / 2) in thousandths, q in 0..1000
SinQuarter(q) ==
    TableLookup(<< <<0, 0>>, <<250, 383>>, <<500, 707>>, <<750, 924>>,
                   <<1000, 1000>> >>, q)

\* 1 / (1 + Math.exp(-x / 1000)) in thousandths
Logistic(x) ==
    LET pos == TableLookup(<< <<0, 500>>, <<1000, 731>>, <<2000, 881>>,
                              <<3000, 953>>, <<4000, 982>>, <<6000, 998>>,
                              <<8000, 1000>> >>, Abs(x))
    IN  IF x >= 0 THEN pos ELSE 1000 - pos

\* Math.sqrt of a value in thousandths
SqrtMilli(x) ==
    CHOOSE r \in 0..1000 : r * r <= x * 1000 /\ x * 1000 < (r + 1) * (r + 1)

\* Math.pow(x, power) for x in 0..1000 thousandths and the powers of the
\* ABP shapes, given in tenths (35 is 3.5)
PowMilli(x, power) ==
    LET sq == (x * x) \div 1000
        cube == (sq * x) \div 1000
    IN  CASE power = 20 -> sq
          [] power = 30 -> cube
          [] power = 35 -> (cube * SqrtMilli(x)) \div 1000
          [] power = 50 -> (((cube * x) \div 1000) * x) \div 1000

\* gaussian(t, mean, stdDev, amplitude)
gaussian(t, mean, stdDev, amplitude) ==
    IF amplitude = 0
    THEN 0
    ELSE LET sd == Max(Abs(stdDev), 1)
             exponent == ((t - mean) * (t - mean) * 1000) \div (2 * sd * sd)
         IN  (amplitude * ExpNeg(exponent)) \div 1000

\* the shape factors of generateAbpWaveformShape: times and depth in
\* thousandths of the beat, the power and the decay factor in tenths
AbpShapeFactors(shapeType) ==
    CASE shapeType = "damped" ->
             [upstrokeEndTimeFactor |-> 280, upstrokePower |-> 20,
              notchTimeFactor |-> 450, notchWidthFactor |-> 150,
              notchDepthFactor |-> 5, diastolicDecayFactor |-> 25]
      [] shapeType = "hyperdynamic" ->
             [upstrokeEndTimeFactor |-> 90, upstrokePower |-> 50,
              notchTimeFactor |-> 450, notchWidthFactor |-> 60,
              notchDepthFactor |-> 70, diastolicDecayFactor |-> 48]
      [] shapeType = "vasoconstricted" ->
             [upstrokeEndTimeFactor |-> 130, upstrokePower |-> 35,
              notchTimeFactor |-> 300, notchWidthFactor |-> 40,
              notchDepthFactor |-> 90, diastolicDecayFactor |-> 19]
      [] OTHER ->
             [upstrokeEndTimeFactor |-> 150, upstrokePower |-> 30,
              notchTimeFactor |-> 350, notchWidthFactor |-> 50,
              notchDepthFactor |-> 100, diastolicDecayFactor |-> 30]

\* the point of the ABP waveform at time t (t >= 0) of a beat
generateAbpWaveformShape(t, beatDuration, amplitudeSystolic, amplitudeDiastolic, shapeType) ==
    LET sys == amplitudeSystolic
        dia == amplitudeDiastolic
        safeDia == Max(0, dia)
        safeSys == Max(safeDia + 1000, sys)
        effectiveDuration == IF beatDuration > 0 THEN beatDuration ELSE 2000
        t_rel == t % effectiveDuration
        pulsePressure == safeSys - safeDia
        f == AbpShapeFactors(shapeType)
        upstrokeEndTime == (effectiveDuration * f.upstrokeEndTimeFactor) \div 1000
        notchTime == (effectiveDuration * f.notchTimeFactor) \div 1000
        safeNotchWidth == Max((effectiveDuration * f.notchWidthFactor) \div 1000, 1)
        rising ==
            safeDia + (pulsePressure
                         * PowMilli(SinQuarter((t_rel * 1000) \div upstrokeEndTime),
                                    f.upstrokePower)) \div 1000
        decaying ==
            LET timeSinceUpstrokeEnd == t_rel - upstrokeEndTime
                exponent == (timeSinceUpstrokeEnd * f.diastolicDecayFactor * 100)
                                \div effectiveDuration
            IN  safeDia + (pulsePressure * ExpNeg(exponent)) \div 1000
        value == CASE t_rel < upstrokeEndTime /\ upstrokeEndTime > 0 -> rising
                   [] upstrokeEndTime <= t_rel -> decaying
                   [] OTHER -> safeDia
        notchDepth == (pulsePressure * f.notchDepthFactor) \div 1000
        notch == gaussian(t_rel, notchTime, safeNotchWidth, -notchDepth)
    IN  IF sys < 1000 /\ dia < 1000
        THEN 0
        ELSE IF pulsePressure <= 0
        THEN safeDia
        ELSE Max(0, Min(safeSys + 15000, value + notch))

ETCO2_MAX_SHAPE_REFERENCE_RR == 20
ETCO2_MAX_ACTIVE_SHAPE_DURATION == 60000 \div ETCO2_MAX_SHAPE_REFERENCE_RR

\* the shape factors of generateEtco2WaveformShape: times and slope in
\* thousandths, the steepness as in the source
Etco2ShapeFactors(shapeType) ==
    LET normal == [inspirationEndFactor |-> 400, plateauStartFactor |-> 500,
                   plateauEndFactor |-> 900, plateauSlopeFactor |-> 50,
                   upstrokeSteepness |-> 10, downstrokeSteepness |-> 12]
    IN  CASE shapeType = "bronchospasm" ->
                 [normal EXCEPT !.plateauStartFactor = 650,
                                !.plateauSlopeFactor = 300,
                                !.upstrokeSteepness = 6]
          [] shapeType = "leak_obstruction" ->
                 [normal EXCEPT !.plateauStartFactor = 600,
                                !.plateauSlopeFactor = -150,
                                !.upstrokeSteepness = 7]
          [] OTHER -> normal

\* the active span of a breath: the breath itself, at most the reference
\* breath of ETCO2_MAX_SHAPE_REFERENCE_RR per minute
Etco2ActiveSpan_WholeBreath(breathDuration) == breathDuration

Etco2ActiveSpan(breathDuration) ==
    Min(breathDuration, ETCO2_MAX_ACTIVE_SHAPE_DURATION)

\* the point of the capnogram at time t (t >= 0) of a breath
generateEtco2WaveformShape(t, breathDuration, etco2Value, shapeType) ==
    LET t_rel == ((t % breathDuration) + breathDuration) % breathDuration
        durationForShapeCalculation == Etco2ActiveSpan(breathDuration)
        f == Etco2ShapeFactors(shapeType)
        inspirationEnd == (durationForShapeCalculation * f.inspirationEndFactor) \div 1000
        plateauStart == (durationForShapeCalculation * f.plateauStartFactor) \div 1000
        plateauEnd == (durationForShapeCalculation * f.plateauEndFactor) \div 1000
        activeWaveformEnd == durationForShapeCalculation
        targetEtco2 == etco2Value
        upstroke ==
            LET phaseDuration == plateauStart - inspirationEnd
                phaseProgress == ((t_rel - inspirationEnd) * 1000) \div phaseDuration
            IN  IF phaseDuration > 0
                THEN (targetEtco2
                        * Logistic(f.upstrokeSteepness * (phaseProgress - 500)))
                         \div 1000
                ELSE targetEtco2
        plateau ==
            LET plateauDuration == plateauEnd - plateauStart
                plateauProgress == ((t_rel - plateauStart) * 1000) \div plateauDuration
            IN  IF plateauDuration > 0
                THEN (targetEtco2
                        * (1000 + (plateauProgress * f.plateauSlopeFactor) \div 1000))
                         \div 1000
                ELSE targetEtco2
        downstroke ==
            LET phaseDuration == activeWaveformEnd - plateauEnd
                phaseProgress == ((t_rel - plateauEnd) * 1000) \div phaseDuration
                startValue == (targetEtco2 * (1000 + f.plateauSlopeFactor)) \div 1000
            IN  IF phaseDuration > 0
                THEN (startValue
                        * (1000 - Logistic(f.downstrokeSteepness
                                             * (phaseProgress - 500)))) \div 1000
                ELSE 0
        value == CASE t_rel >= activeWaveformEnd -> 0
                   [] t_rel < inspirationEnd -> 0
                   [] t_rel < plateauStart -> upstroke
                   [] t_rel < plateauEnd -> plateau
                   [] OTHER -> downstroke
    IN  IF breathDuration <= 0 \/ breathDuration >= Infinity
        THEN 0
        ELSE IF etco2Value < 10 \/ shapeType = "disconnect"
        THEN 0
        ELSE Max(0, value)

\* values that are no finite number: NaN and undefined (null is JsonNull)
NaN == Infinity + 1
Undefined == Infinity + 2

\* Number.isFinite(value)
NumberIsFinite(value) == value > NegInfinity /\ value < Infinity

\* ensureFinite with the test left out
ensureFinite_Unchecked(value, defaultValue) == value

\* ensureFinite(value, defaultValue)
ensureFinite(value, defaultValue) ==
    IF NumberIsFinite(value) THEN value ELSE defaultValue

\* the last call of a waveform function: its arguments and, once it has
\* returned, its value
NoSample ==
    [fn |-> "none", t |-> 0, duration |-> 0, a |-> 0, b |-> 0,
     shapeType |-> "normal", value |-> 0, returned |-> FALSE]

(* ------------------------------------------------------------------ *)
(* The delayed parameter update: monitorInstance.updateTimeoutId and   *)
(* the timeouts of setTimeout that have neither fired nor been cleared *)
(* ------------------------------------------------------------------ *)
NoTimeout == 0
NoTimers == [updateTimeoutId |-> NoTimeout, queue |-> {}, nextId |-> 1]

\* faulty variant: the id is forgotten, the timeout is left to fire
ClearUpdateTimeout_IdOnly(t) == [t EXCEPT !.updateTimeoutId = NoTimeout]

\* if (updateTimeoutId !== null) { clearTimeout(updateTimeoutId);
\*                                 updateTimeoutId = null; }
ClearUpdateTimeout(t) ==
    IF t.updateTimeoutId # NoTimeout
    THEN [t EXCEPT !.queue = @ \ {t.updateTimeoutId},
                   !.updateTimeoutId = NoTimeout]
    ELSE t

\* updateTimeoutId = setTimeout(applyFn, delayMs)
ScheduleUpdate(t) ==
    [t EXCEPT !.updateTimeoutId = t.nextId,
              !.queue = @ \cup {t.nextId},
              !.nextId = @ + 1]

\* handlers that clear the timeout when they take effect: the Update click,
\* stopAnimation and startAnimation
TimeoutClearingOps ==
    {"_handleUpdateVitalsClick", "_handleActivateClick", "startAnimation",
     "stopAnimation"}

(* ------------------------------------------------------------------ *)
(* server.js: connections and sessions of the relay                    *)
(* ------------------------------------------------------------------ *)
Clients == {"ws1", "ws2", "ws3"}
SessionIds == {"AAAA", "BBBB"}
NoSession == "null"
NoRole == "null"
ClientRoles == {"controller", "monitor"}
CommandTypes ==
    {"param_update", "activate_sim", "deactivate_sim", "shock",
     "nibp_trigger", "sound_state_update"}

\* a socket before wss.on('connection') and after its close handler
Unconnected ==
    [readyState |-> "NONE", sessionId |-> NoSession, role |-> NoRole,
     isAlive |-> TRUE, pingPending |-> FALSE, silentTicks |-> 0]

\* ws.sessionId = null; ws.role = null; ws.isAlive = true on connection.
\* pingPending: a ping of the keep-alive check is on its way or unanswered.
\* silentTicks is no field of the source: the keep-alive checks that have
\* run since the server last heard from the socket
NewConnection ==
    [readyState |-> "OPEN", sessionId |-> NoSession, role |-> NoRole,
     isAlive |-> TRUE, pingPending |-> FALSE, silentTicks |-> 0]

\* an id that is no key of sessions
NoToken == "none"
\* results of generateAdminToken
AdminTokens == {"tokA", "tokB"}
NoSessionObj == [exists |-> FALSE, clients |-> {}, adminToken |-> NoToken]

NoDelivery == [type |-> "none", sender |-> "none", to |-> {}]

\* const sessions = {} and no connection
NewServer ==
    [ws |-> [c \in Clients |-> Unconnected],
     sessions |-> [s \in SessionIds |-> NoSessionObj],
     delivered |-> NoDelivery]

(* ------------------------------------------------------------------ *)
(* networkManager.js: the page's connection to the relay               *)
(* ------------------------------------------------------------------ *)
\* let ws = null
NoSocket == "null"
\* ids of the timeouts setTimeout hands out for scheduleReconnection; an
\* id is free again once its timeout has fired or been cleared
ReconnectTimeoutIds == {1, 2}

\* the module-level variables after the script has loaded; readyState is
\* the readyState of each WebSocket object the page has created ("NONE":
\* not created), timeouts the reconnection timeouts the browser holds,
\* toServer / toClient the messages in flight, dialog the script's position:
\* "none", inside alert() of 'session_created' / 'session_joined' ("alert",
\* continued by sendSetRole), inside alert() of 'error' ("error"), or
\* waiting for window.location.reload ("reload")
NoNetwork ==
    [ws |-> NoSocket, currentSessionId |-> NoSession, isConnected |-> FALSE,
     reconnectTimerId |-> NoTimeout, timeouts |-> {},
     readyState |-> [s \in Clients |-> "NONE"],
     toServer |-> <<>>, toClient |-> <<>>, dialog |-> "none"]

\* stopReconnectionAttempts that forgets the id and leaves the timeout
stopReconnectionAttempts_IdOnly(n) ==
    [n EXCEPT !.reconnectTimerId = NoTimeout]

\* stopReconnectionAttempts()
stopReconnectionAttempts(n) ==
    IF n.reconnectTimerId # NoTimeout
    THEN [n EXCEPT !.timeouts = @ \ {n.reconnectTimerId},
                   !.reconnectTimerId = NoTimeout]
    ELSE n

\* scheduleReconnection(): reconnectTimerId = setTimeout(...)
scheduleReconnection(n) ==
    IF n.reconnectTimerId # NoTimeout THEN n
    ELSE LET id == CHOOSE i \in ReconnectTimeoutIds : i \notin n.timeouts
         IN  [n EXCEPT !.timeouts = @ \cup {id}, !.reconnectTimerId = id]

\* ws && (ws.readyState === OPEN || ws.readyState === CONNECTING)
OpenOrConnecting(n) ==
    /\ n.ws # NoSocket
    /\ n.readyState[n.ws] \in {"OPEN", "CONNECTING"}

\* connectWebSocket(); socket is the object new WebSocket(wsUrl) returns
connectWebSocket(n, socket) ==
    IF OpenOrConnecting(n) THEN n
    ELSE [n EXCEPT !.ws = socket, !.readyState[socket] = "CONNECTING"]

\* sendMessage(message) of the page
sendToServer(n, type, sessionId, role) ==
    IF n.ws # NoSocket /\ n.readyState[n.ws] = "OPEN"
    THEN [n EXCEPT !.toServer =
                       Append(@, [type |-> type, socket |-> n.ws,
                                  sessionId |-> sessionId, role |-> role])]
    ELSE IF n.ws = NoSocket /\ n.reconnectTimerId = NoTimeout
    THEN scheduleReconnection(n)
    ELSE n

\* sendSetRole(role)
sendSetRole(n, role) ==
    IF n.currentSessionId = NoSession THEN n
    ELSE IF role \notin ClientRoles THEN n
    ELSE sendToServer(n, "set_role", n.currentSessionId, role)

\* handleSessionEndedOrNotFoundAndReload: the page reloads 2.5 s later
handleSessionEndedOrNotFoundAndReload(n) ==
    [n EXCEPT !.currentSessionId = NoSession, !.dialog = "reload"]

\* ws.onopen; the page was loaded without a session in its URL and this
\* server issues no device credentials, so a re-join is a join_session
onopen(n, role) ==
    LET n1 == stopReconnectionAttempts([n EXCEPT !.isConnected = TRUE])
    IN  IF n1.currentSessionId # NoSession /\ role # NoRole
        THEN sendToServer(n1, "join_session", n1.currentSessionId, NoRole)
        ELSE n1

\* ws.onclose
onclose(n, code) ==
    LET n1 == [n EXCEPT !.isConnected = FALSE, !.ws = NoSocket]
    IN  IF code # 1000 /\ code # 1001 /\ n1.reconnectTimerId = NoTimeout
        THEN scheduleReconnection(n1)
        ELSE IF n1.reconnectTimerId = NoTimeout
                  /\ n1.currentSessionId # NoSession
        THEN handleSessionEndedOrNotFoundAndReload(n1)
        ELSE n1

\* ws.onerror
onerror(n) ==
    LET n1 == [n EXCEPT !.isConnected = FALSE]
        n2 == IF OpenOrConnecting(n1)
              THEN [n1 EXCEPT !.readyState[n1.ws] = "CLOSING"]
              ELSE IF n1.reconnectTimerId = NoTimeout
              THEN scheduleReconnection(n1)
              ELSE n1
    IN  [n2 EXCEPT !.ws = NoSocket]

\* handleCreateSession()
handleCreateSession(n) ==
    sendToServer(stopReconnectionAttempts(n), "create_session", NoSession,
                 NoRole)

\* handleServerMessage(message) up to the return of the handler or the
\* call of alert(); role is currentRole
handleServerMessage(n, role, message) ==
    CASE message.type = "session_created" ->
             [n EXCEPT !.currentSessionId = message.sessionId,
                       !.dialog = "alert"]
      [] message.type = "session_joined" ->
             LET n1 == [n EXCEPT !.currentSessionId = message.sessionId]
             IN  IF n1.reconnectTimerId = NoTimeout
                 THEN [n1 EXCEPT !.dialog = "alert"]
                 ELSE sendSetRole(n1, role)
      [] message.type = "session_not_found" ->
             handleSessionEndedOrNotFoundAndReload(n)
      [] message.type = "error" -> [n EXCEPT !.dialog = "error"]
      [] OTHER -> n

\* the user has closed the dialog and alert() returns: the rest of the
\* handler runs
AfterAlert(n, role) ==
    IF n.dialog = "alert" THEN sendSetRole([n EXCEPT !.dialog = "none"], role)
    ELSE [n EXCEPT !.dialog = "none"]

(* ------------------------------------------------------------------ *)

(* Rhythm catalog (rhythms.js)                                         *)
(* ------------------------------------------------------------------ *)
KnownRhythms == {"normal", "asystole", "vfib"}

\* `{}` and a missing catalog entry: every field undefined
EmptyParams ==
    [generatorType |-> "undefined", baseHR |-> 0, isPEA |-> FALSE,
     isChaotic |-> FALSE, isFlat |-> FALSE, isArtifact |-> FALSE,
     artifactType |-> "none"]

\* avBlockGenerator.js fallbacks: params.atrialRate ?? 70,
\* params.prIntervalStart ?? 0.16 and params.prIncrement ?? 0.06 in ms,
\* params.wenckebachRatioBeats ?? 4
DEFAULT_ATRIAL_RATE == 70
DEFAULT_PR_INTERVAL_START == 160
DEFAULT_PR_INCREMENT == 60
DEFAULT_WENCKEBACH_RATIO == 4

\* Wenckebach entries of the catalogue with a drop-cycle of 4: one per atrial
\* rate, and one that leaves the atrial rate to the generator's fallback;
\* the conduction delays are left to the fallbacks
AtrialRates == {75, 100}
WenckebachCycle == 4
WenckebachRhythms == {"avb2_mobitz1_75", "avb2_mobitz1_100", "avb2_mobitz1"}

WenckebachParams(key) ==
    LET base == [generatorType |-> "avBlock", baseHR |-> DEFAULT_ATRIAL_RATE,
                 isPEA |-> FALSE, isChaotic |-> FALSE, isFlat |-> FALSE,
                 isArtifact |-> FALSE, artifactType |-> "none",
                 blockType |-> "mobitz1",
                 wenckebachRatioBeats |-> WenckebachCycle]
        withRate(r) == [f \in DOMAIN base \cup {"atrialRate"} |->
                           IF f \in {"atrialRate", "baseHR"} THEN r
                           ELSE base[f]]
    IN  CASE key = "avb2_mobitz1_75" -> withRate(75)
          [] key = "avb2_mobitz1_100" -> withRate(100)
          [] OTHER -> base

InCatalog(key) == key \in KnownRhythms \cup WenckebachRhythms

RHYTHM_PARAMS(key) ==
    CASE key = "normal" ->
            [EmptyParams EXCEPT !.generatorType = "pqrst",
                                !.baseHR = normalBaseHR]
      [] key = "asystole" ->
            [EmptyParams EXCEPT !.generatorType = "flatline", !.isFlat = TRUE]
      [] key = "vfib" ->
            [EmptyParams EXCEPT !.generatorType = "chaotic",
                                !.isChaotic = TRUE]
      [] key \in WenckebachRhythms -> WenckebachParams(key)
      [] OTHER -> EmptyParams

\* isPEA || isChaotic || isFlat || key === "vt_pulseless" || CPR artifact
IsPulselessOrCpr(key, params) ==
    \/ params.isPEA
    \/ params.isChaotic
    \/ params.isFlat
    \/ key = "vt_pulseless"
    \/ (params.isArtifact /\ params.artifactType = "cpr")

(* ------------------------------------------------------------------ *)
(* Parameter snapshots                                                 *)
(* ------------------------------------------------------------------ *)
\* initialNibp: no measurement yet
NoNibp ==
    [sys |-> JsonNull, dia |-> JsonNull, map |-> JsonNull,
     timestamp |-> JsonNull]

\* _initializeTargetParams with the fallbacks the code names for absent
\* panel elements
InitialTargetParams ==
    [ecg   |-> [rhythm |-> "normal", hr |-> normalBaseHR * 1000,
                params |-> RHYTHM_PARAMS("normal")],
     spo2  |-> [value |-> 98000, shape |-> "normal"],
     abp   |-> [sys |-> 120000, dia |-> 80000, shape |-> "normal"],
     etco2 |-> [valueKpa |-> DEFAULT_ETCO2_KPA, rr |-> DEFAULT_RESP_RATE,
                etco2Shape |-> "normal", unitPref |-> "kPa"],
     temp  |-> [valueC |-> 37000],
     nibp  |-> NoNibp]

EmptyBuffers ==
    [sweepBufferECG   |-> [i \in 0..(BUFFER_SIZE - 1) |-> "null"],
     sweepBufferSpO2  |-> [i \in 0..(BUFFER_SIZE - 1) |-> "null"],
     sweepBufferABP   |-> [i \in 0..(BUFFER_SIZE - 1) |-> "null"],
     sweepBufferETCO2 |-> [i \in 0..(ETCO2_BUFFER_SIZE - 1) |-> "null"]]

EmptyEcgState == [initialized |-> FALSE]

\* constructor of WaveformGenerator
NewMonitor ==
    [rhythmTime |-> 0, respiratoryTime |-> 0, lastTimestamp |-> 0,
     simulationTimeAccumulator |-> 0,
     nextBeatTime |-> 0, lastBeatTime |-> NegInfinity,
     nextBreathTime |-> 0, lastBreathTime |-> NegInfinity,
     nextCompressionTime |-> 0, lastCompressionTime |-> NegInfinity,
     ecgState |-> EmptyEcgState,
     currentParams |-> InitialTargetParams,
     targetParams |-> InitialTargetParams,
     interpolationTargetParams |-> InitialTargetParams,
     animationRunning |-> FALSE,
     sweepIndex |-> 0, etco2SweepIndex |-> 0,
     shockRequested |-> FALSE,
     buffers |-> EmptyBuffers,
     pendingEtco2Params |-> Null, isEtco2UpdatePending |-> FALSE,
     pendingSpo2Params |-> Null, isSpo2UpdatePending |-> FALSE,
     pendingAbpParams |-> Null, isAbpUpdatePending |-> FALSE]

\* chaoticGenerator.js, module scope
NewChaotic ==
    [lastChaoticValue |-> 0, nextChaoticValue |-> 0, holdCounter |-> 0,
     interpolationStep |-> 0]

(* ------------------------------------------------------------------ *)
(* Schedulers                                                          *)
(* ------------------------------------------------------------------ *)
\* 60.0 / rate for a rate in thousandths of a beat per minute, in ms
IntervalMs(rate) == 60000000 \div rate

\* rr > 0 ? Math.max(0.5, 60.0 / rr) : Infinity
BreathInterval(rr) ==
    IF rr > 0 THEN Max(MinBreathIntervalMs, 60000 \div rr) ELSE Infinity

\* rr > 0 ? 60.0 / rr : Infinity   (startAnimation, rhythm switch, shock)
RawBreathInterval(rr) == IF rr > 0 THEN 60000 \div rr ELSE Infinity

_resetBreathTiming(m, interval) ==
    [m EXCEPT !.lastBreathTime = m.respiratoryTime,
              !.nextBreathTime = TAdd(m.respiratoryTime, interval)]

\* faulty variant: the rate is read from the interpolating value in `current`
BeatRate_FromCurrent(m) ==
    LET src == m.currentParams.ecg
    IN  IF src.params.generatorType \in {"pqrst", "avBlock", "paced"}
        THEN Max(src.hr, 0) ELSE 0

\* the rate _calculateNextBeatTime schedules from: interpolationTargetParams
BeatRate(m) ==
    LET src == m.interpolationTargetParams.ecg
        params == src.params
    IN  IF params.generatorType = "pqrst"
        THEN IF params.isPEA \/ src.rhythm = "vt_pulseless"
             THEN Max(params.baseHR * 1000, 0)
             ELSE Max(src.hr, 0)
        ELSE IF params.generatorType \in {"avBlock", "paced"}
             THEN Max(src.hr, 0)
             ELSE 0

\* faulty variant: a rate of 0 is not set apart, the interval is computed
\* from the smallest positive rate instead
_calculateNextBeatTime_NoZeroGuard(m) ==
    LET interval == Max(MinBeatIntervalMs, IntervalMs(Max(BeatRate(m), 1)))
        baseTime == IF m.lastBeatTime = NegInfinity
                    THEN m.rhythmTime ELSE m.lastBeatTime
        next == baseTime + interval
    IN  [m EXCEPT !.nextBeatTime =
             IF next <= m.rhythmTime THEN m.rhythmTime + StepMs ELSE next]

_calculateNextBeatTime(m) ==
    LET rate == BeatRate(m)
        interval == IF rate > 0
                    THEN Max(MinBeatIntervalMs, IntervalMs(rate))
                    ELSE Infinity
        baseTime == IF m.lastBeatTime = NegInfinity
                    THEN m.rhythmTime ELSE m.lastBeatTime
        next == baseTime + interval
    IN  IF interval = Infinity
        THEN [m EXCEPT !.nextBeatTime = Infinity]
        ELSE [m EXCEPT !.nextBeatTime =
                 IF next <= m.rhythmTime THEN m.rhythmTime + StepMs ELSE next]

(* ------------------------------------------------------------------ *)
(* initiateParameterChange                                             *)
(* ------------------------------------------------------------------ *)
\* the {valueKpa, rr, etco2Shape} object compared by JSON.stringify
Etco2Core(e) == <<e.valueKpa, e.rr, e.etco2Shape>>

\* faulty variant: the ETCO2 request is written into `current` at once
IPC_Etco2_Immediate(m, oldCurrentEtco2RR) ==
    [m EXCEPT !.currentParams.etco2 = m.targetParams.etco2,
              !.interpolationTargetParams.etco2 = m.targetParams.etco2]

\* ETCO2 block: the request becomes pending, applied at the next breath
IPC_Etco2(m, oldCurrentEtco2RR) ==
    LET t == m.targetParams.etco2
        differs ==
            \/ Etco2Core(t) # Etco2Core(m.currentParams.etco2)
            \/ (m.isEtco2UpdatePending /\ m.pendingEtco2Params # t)
        m1 == IF differs
              THEN [m EXCEPT
                      !.pendingEtco2Params = t,
                      !.isEtco2UpdatePending = TRUE,
                      !.interpolationTargetParams.etco2 = t,
                      !.nextBreathTime =
                          IF t.rr > 0 /\ oldCurrentEtco2RR = 0
                          THEN m.respiratoryTime ELSE @]
              ELSE m
    IN  IF m1.currentParams.etco2.unitPref # t.unitPref
        THEN [m1 EXCEPT
                !.currentParams.etco2.unitPref = t.unitPref,
                !.interpolationTargetParams.etco2.unitPref = t.unitPref]
        ELSE m1

\* SpO2 block: compares the request with the interpolation target
IPC_Spo2(m, oldSpo2Shape) ==
    LET t == m.targetParams.spo2
        i == m.interpolationTargetParams.spo2
    IN  IF <<t.value, t.shape>> # <<i.value, i.shape>>
        THEN LET recovering == oldSpo2Shape = "no_signal"
                               /\ t.shape # "no_signal" /\ t.value > 0
             IN [m EXCEPT
                   !.pendingSpo2Params = t,
                   !.isSpo2UpdatePending = ~recovering,
                   !.interpolationTargetParams.spo2 = t,
                   !.currentParams.spo2.shape =
                       IF recovering THEN t.shape ELSE @]
        ELSE m

\* ABP block: compares the request with the interpolation target
IPC_Abp(m, oldAbpShape) ==
    LET t == m.targetParams.abp
        i == m.interpolationTargetParams.abp
        c == m.currentParams.abp
    IN  IF <<t.sys, t.dia, t.shape>> # <<i.sys, i.dia, i.shape>>
        THEN LET recovering == oldAbpShape = "damped"
                               /\ (c.sys = 0 \/ c.dia = 0)
                               /\ (t.sys > 0 \/ t.dia > 0)
             IN [m EXCEPT
                   !.pendingAbpParams = t,
                   !.isAbpUpdatePending = ~recovering,
                   !.interpolationTargetParams.abp = t,
                   !.currentParams.abp.shape =
                       IF recovering THEN t.shape ELSE @]
        ELSE m

\* lastBeatTime = -Infinity; nextBeatTime = rhythmTime; reschedule
ResetEcgTiming(m) ==
    LET m1 == [m EXCEPT !.lastBeatTime = NegInfinity,
                        !.nextBeatTime = m.rhythmTime]
        m2 == _calculateNextBeatTime(m1)
    IN  [m2 EXCEPT !.lastCompressionTime = NegInfinity,
                   !.nextCompressionTime = m.rhythmTime]

\* rhythm switch to a pulseless rhythm: dependent vitals snap
SnapToPulseless(m, key) ==
    LET m1 == [m EXCEPT !.currentParams.ecg.hr = 0]
        m2 == IF InCatalog(key)
              THEN LET e == [m1.currentParams.etco2 EXCEPT
                                !.valueKpa = 0, !.rr = 0,
                                !.etco2Shape = "disconnect"]
                       m3 == [m1 EXCEPT
                                !.currentParams.spo2.value = 0,
                                !.currentParams.spo2.shape = "no_signal",
                                !.currentParams.abp.sys = 0,
                                !.currentParams.abp.dia = 0,
                                !.currentParams.abp.shape = "damped",
                                !.currentParams.etco2 = e,
                                !.interpolationTargetParams.etco2 = e,
                                !.isEtco2UpdatePending = FALSE,
                                !.pendingEtco2Params = Null]
                   IN _resetBreathTiming(m3, RawBreathInterval(e.rr))
              ELSE m1
    IN  [m2 EXCEPT
           !.interpolationTargetParams.ecg.hr = m2.currentParams.ecg.hr,
           !.interpolationTargetParams.spo2 = m2.currentParams.spo2,
           !.interpolationTargetParams.abp = m2.currentParams.abp,
           !.isSpo2UpdatePending = FALSE, !.pendingSpo2Params = Null,
           !.isAbpUpdatePending = FALSE, !.pendingAbpParams = Null]

\* the rhythm key of the request differs from the running one
IPC_RhythmChanged(m, oldRhythmKey) ==
    LET key == m.targetParams.ecg.rhythm
        params == RHYTHM_PARAMS(key)
        m1 == [m EXCEPT !.currentParams.ecg.rhythm = key,
                        !.currentParams.ecg.params = params,
                        !.ecgState = EmptyEcgState]
        wasPulselessOrCpr ==
            InCatalog(oldRhythmKey)
            /\ IsPulselessOrCpr(oldRhythmKey, RHYTHM_PARAMS(oldRhythmKey))
        m2 == IF IsPulselessOrCpr(key, params)
              THEN SnapToPulseless(m1, key)
              ELSE IF wasPulselessOrCpr
                   THEN [m1 EXCEPT
                           !.currentParams.spo2.shape =
                               m.targetParams.spo2.shape,
                           !.currentParams.abp.shape =
                               m.targetParams.abp.shape]
                   ELSE m1
    IN  ResetEcgTiming(m2)

\* same rhythm, the requested rate differs from the current rate
IPC_RateChanged(m) ==
    LET c == m.currentParams.ecg
    IN  IF IsPulselessOrCpr(c.rhythm, c.params)
        THEN [m EXCEPT !.currentParams.ecg.hr = 0,
                       !.interpolationTargetParams.ecg.hr = 0,
                       !.targetParams.ecg.hr = 0]
        ELSE ResetEcgTiming(m)

IPC_Ecg(m, oldRhythmKey, oldCurrentHR) ==
    IF m.targetParams.ecg.rhythm # oldRhythmKey
    THEN IPC_RhythmChanged(m, oldRhythmKey)
    ELSE IF m.targetParams.ecg.hr # oldCurrentHR
         THEN IPC_RateChanged(m)
         ELSE m

initiateParameterChange(m) ==
    LET c == m.currentParams
        m1 == [m EXCEPT !.interpolationTargetParams = m.targetParams]
        m2 == IPC_Etco2(m1, c.etco2.rr)
        m3 == IPC_Spo2(m2, c.spo2.shape)
        m4 == IPC_Abp(m3, c.abp.shape)
    IN  IPC_Ecg(m4, c.ecg.rhythm, c.ecg.hr)

(* ------------------------------------------------------------------ *)
(* One logical step: updateWaveforms                                   *)
(* ------------------------------------------------------------------ *)
\* breath part of _checkAndResetTimers
CheckBreathTimer(m) ==
    IF m.isEtco2UpdatePending /\ m.pendingEtco2Params # Null
    THEN IF m.respiratoryTime >= m.nextBreathTime
         THEN [m EXCEPT
                 !.currentParams.etco2 = m.pendingEtco2Params,
                 !.lastBreathTime = m.respiratoryTime,
                 !.nextBreathTime =
                     TAdd(m.respiratoryTime,
                          BreathInterval(m.pendingEtco2Params.rr)),
                 !.isEtco2UpdatePending = FALSE,
                 !.pendingEtco2Params = Null]
         ELSE m
    ELSE IF m.respiratoryTime >= m.nextBreathTime
            /\ BreathInterval(m.currentParams.etco2.rr) < Infinity
         THEN _resetBreathTiming(m, BreathInterval(m.currentParams.etco2.rr))
         ELSE m

\* pending SpO2 / ABP shapes taken over at a beat
ApplyPendingShapes(m) ==
    LET m1 == IF m.isSpo2UpdatePending /\ m.pendingSpo2Params # Null
              THEN [m EXCEPT
                      !.currentParams.spo2.shape = m.pendingSpo2Params.shape,
                      !.isSpo2UpdatePending = FALSE,
                      !.pendingSpo2Params = Null]
              ELSE m
    IN  IF m1.isAbpUpdatePending /\ m1.pendingAbpParams # Null
        THEN [m1 EXCEPT
                !.currentParams.abp.shape = m1.pendingAbpParams.shape,
                !.isAbpUpdatePending = FALSE,
                !.pendingAbpParams = Null]
        ELSE m1

\* the step crosses a scheduled beat of a beat-based generator
BeatDue(m) ==
    /\ m.currentParams.ecg.params.generatorType \in
           {"pqrst", "avBlock", "paced"}
    /\ m.rhythmTime >= m.nextBeatTime

\* beat part of _checkAndResetTimers
CheckBeatTimer(m) ==
    IF BeatDue(m)
    THEN ApplyPendingShapes(
             _calculateNextBeatTime([m EXCEPT !.lastBeatTime = m.nextBeatTime]))
    ELSE m

_checkAndResetTimers(m) == CheckBeatTimer(CheckBreathTimer(m))

\* chaoticGenerator.js: the module state after one call; rnd is the value
\* Math.random() yields when a new target amplitude is drawn
generateChaotic(ch, rnd) ==
    LET hold == DEFAULT_VF_HOLD_DURATION
        c1 == IF ch.holdCounter <= 0
              THEN [lastChaoticValue |-> ch.nextChaoticValue,
                    nextChaoticValue |-> rnd,
                    holdCounter |-> hold,
                    interpolationStep |-> 0]
              ELSE ch
        c2 == IF hold > 0 /\ c1.interpolationStep < hold
              THEN [c1 EXCEPT !.interpolationStep = @ + 1]
              ELSE c1
    IN  [c2 EXCEPT !.holdCounter = @ - 1]

\* the sample generateChaotic returns (before noise), in units of 1/hold
ChaoticSample(ch, rnd) ==
    LET hold == DEFAULT_VF_HOLD_DURATION
        last == IF ch.holdCounter <= 0 THEN ch.nextChaoticValue
                ELSE ch.lastChaoticValue
        next == IF ch.holdCounter <= 0 THEN rnd ELSE ch.nextChaoticValue
        step == IF ch.holdCounter <= 0 THEN 0 ELSE ch.interpolationStep
    IN  IF hold > 0 /\ step < hold
        THEN last * hold + (next - last) * step
        ELSE next * hold

(* ------------------------------------------------------------------ *)
(* avBlockGenerator.js: generateAVBlock, the Wenckebach (mobitz1) path *)
(* ------------------------------------------------------------------ *)
\* params.field ?? fallback
ParamOr(params, field, fallback) ==
    IF field \in DOMAIN params THEN params[field] ELSE fallback

\* JSON.stringify writes Infinity and -Infinity as null; the value a number
\* has after JSON.parse(JSON.stringify(x))
JsonNumber(x) == IF x \in {Infinity, NegInfinity} THEN JsonNull ELSE x

\* a null operand of a relational operator converts to 0
ToNumber(x) == IF x = JsonNull THEN 0 ELSE x

\* JSON.parse(JSON.stringify(previousEcgState)), or {} for an empty state
JsonCopy(state) ==
    IF ~state.initialized THEN EmptyEcgState
    ELSE [state EXCEPT !.lastPTime = JsonNumber(@),
                       !.nextPTime = JsonNumber(@),
                       !.lastQRSTime = JsonNumber(@),
                       !.nextQRSTime = JsonNumber(@),
                       !.nextEscapeBeatTime = JsonNumber(@)]

\* the state generateAVBlock builds on the first call for a rhythm
NewAVBlockState(currentTime, params) ==
    [initialized |-> TRUE,
     lastPTime |-> NegInfinity, nextPTime |-> currentTime,
     lastQRSTime |-> NegInfinity, nextQRSTime |-> currentTime,
     wenckebachCycleBeat |-> 0,
     currentPR |-> ParamOr(params, "prIntervalStart",
                           DEFAULT_PR_INTERVAL_START),
     pWaveCount |-> 0, conductedBeatCount |-> 0,
     nextEscapeBeatTime |-> Infinity,
     droppedLast |-> FALSE, lastQRSwasEscape |-> FALSE,
     lastConductedPR |-> 0]

\* 60.0 / atrialRate, in ms
PInterval(params) ==
    LET atrialRate == ParamOr(params, "atrialRate", DEFAULT_ATRIAL_RATE)
    IN  IF atrialRate > 0 THEN 60000 \div atrialRate ELSE Infinity

\* the drop decision with a strict comparison: the cycle runs one beat long
WenckebachDrops_Late(cycleBeat, params) ==
    cycleBeat > ParamOr(params, "wenckebachRatioBeats",
                        DEFAULT_WENCKEBACH_RATIO)

\* the delay left as it is after a conducted beat
WenckebachNextPR_Flat(currentPR, params) == currentPR

\* wenckebachCycleBeat >= (params.wenckebachRatioBeats ?? 4)
WenckebachDrops(cycleBeat, params) ==
    cycleBeat >= ParamOr(params, "wenckebachRatioBeats",
                         DEFAULT_WENCKEBACH_RATIO)

\* state.currentPR += params.prIncrement ?? 0.06
WenckebachNextPR(currentPR, params) ==
    currentPR + ParamOr(params, "prIncrement", DEFAULT_PR_INCREMENT)

\* the state generateAVBlock returns for blockType mobitz1 (the other block
\* types draw Math.random and belong to no modelled rhythm)
generateAVBlock(currentTime, params, state) ==
    LET mobitz1 == params.blockType = "mobitz1"
        s0 == IF ~state.initialized
              THEN NewAVBlockState(currentTime, params) ELSE state
        pInterval == PInterval(params)
        pNow == currentTime >= ToNumber(s0.nextPTime) /\ pInterval < Infinity
        s1 == IF pNow
              THEN [s0 EXCEPT !.lastPTime = s0.nextPTime,
                              !.nextPTime = ToNumber(s0.nextPTime) + pInterval]
              ELSE s0
        s2 == IF pNow /\ mobitz1
              THEN IF s1.droppedLast
                   THEN [s1 EXCEPT
                           !.currentPR = ParamOr(params, "prIntervalStart",
                                             DEFAULT_PR_INTERVAL_START),
                           !.wenckebachCycleBeat = 1,
                           !.droppedLast = FALSE]
                   ELSE [s1 EXCEPT !.wenckebachCycleBeat = @ + 1]
              ELSE s1
        decide == pNow /\ mobitz1
        drop == decide /\ WenckebachDrops(s2.wenckebachCycleBeat, params)
        conductThisP == decide /\ ~drop
        s3 == IF drop THEN [s2 EXCEPT !.droppedLast = TRUE]
              ELSE IF conductThisP
              THEN [s2 EXCEPT
                      !.nextQRSTime = ToNumber(s2.lastPTime) + s2.currentPR,
                      !.currentPR = WenckebachNextPR(s2.currentPR, params)]
              ELSE s2
        qrsDue == /\ mobitz1
                  /\ currentTime >= ToNumber(s3.nextQRSTime)
                  /\ ToNumber(s3.nextQRSTime) > ToNumber(s3.lastQRSTime)
        generateQRSNow ==
            qrsDue /\ ToNumber(s3.nextQRSTime) > ToNumber(s3.lastPTime)
        prForThisQRS == ToNumber(s3.nextQRSTime) - ToNumber(s3.lastPTime)
    IN  IF generateQRSNow
        THEN [s3 EXCEPT !.lastQRSTime = s3.nextQRSTime,
                        !.nextQRSTime = Infinity,
                        !.lastQRSwasEscape = FALSE,
                        !.lastConductedPR = prForThisQRS]
        ELSE IF qrsDue THEN [s3 EXCEPT !.nextQRSTime = Infinity]
        ELSE s3

\* state effects of _generateECGWaveformInternal on the instance
_generateECGWaveformInternal(m) ==
    LET params == m.currentParams.ecg.params
        g == params.generatorType
    IN  [m EXCEPT !.ecgState =
                      IF g = "avBlock"
                      THEN generateAVBlock(m.rhythmTime, params,
                                           JsonCopy(m.ecgState))
                      ELSE EmptyEcgState,
                  !.lastBeatTime =
                      IF g \in {"pqrst", "paced", "avBlock", "artifact"}
                      THEN @ ELSE NegInfinity]

\* the sample written at the cursor with no gap loop before it
SweepWrite_NoGap(buf, size, cursor, value) ==
    [i \in 0..(size - 1) |-> IF i = cursor THEN value ELSE buf[i]]

\* positions cursor .. cursor + GAP_SAMPLES - 1 (mod size) are blanked, then
\* the cursor position takes the new sample
SweepWrite(buf, size, cursor, value) ==
    [i \in 0..(size - 1) |->
        IF i = cursor THEN value
        ELSE IF (i - cursor) % size < Min(GAP_SAMPLES, size)
             THEN "null"
             ELSE buf[i]]

\* if (sweepIndex >= BUFFER_SIZE) sweepIndex = 0
WrapIndex(index, size) == IF index >= size \/ index < 0 THEN 0 ELSE index

_manageSweepBuffer(m) ==
    LET si == WrapIndex(m.sweepIndex, BUFFER_SIZE)
        ei == WrapIndex(m.etco2SweepIndex, ETCO2_BUFFER_SIZE)
        b  == m.buffers
    IN  [m EXCEPT
           !.sweepIndex = si,
           !.etco2SweepIndex = ei,
           !.buffers =
               [sweepBufferECG |->
                    SweepWrite(b.sweepBufferECG, BUFFER_SIZE, si, "sample"),
                sweepBufferSpO2 |->
                    SweepWrite(b.sweepBufferSpO2, BUFFER_SIZE, si, "sample"),
                sweepBufferABP |->
                    SweepWrite(b.sweepBufferABP, BUFFER_SIZE, si, "sample"),
                sweepBufferETCO2 |->
                    SweepWrite(b.sweepBufferETCO2, ETCO2_BUFFER_SIZE, ei,
                               "sample")]]

updateWaveforms(m) ==
    LET m1 == [m EXCEPT !.rhythmTime = @ + StepMs,
                        !.respiratoryTime = @ + StepMs]
        m2 == _checkAndResetTimers(m1)
        m3 == _generateECGWaveformInternal(m2)
        m4 == _manageSweepBuffer(m3)
    IN  [m4 EXCEPT !.sweepIndex = @ + 1, !.etco2SweepIndex = @ + 1]

(* ------------------------------------------------------------------ *)
(* Interpolation at the end of a rendering callback                    *)
(* ------------------------------------------------------------------ *)
\* current += diff * rate * delta, or the snap onto the target;
\* num / den is the rate, dt the callback's delta in ms
Approach(cur, target, dt, num, den) ==
    IF Abs(target - cur) > SnapThreshold
    THEN cur + Scale(target - cur, num * dt, den * 1000)
    ELSE target

InterpolateHr(m, dt) ==
    LET c == m.currentParams.ecg
        target == m.interpolationTargetParams.ecg.hr
        fixed == \/ c.params.isFlat \/ c.params.isChaotic \/ c.params.isPEA
                 \/ c.params.isArtifact \/ c.rhythm = "vt_pulseless"
    IN  IF Abs(target - c.hr) > SnapThreshold
        THEN IF fixed THEN 0
             ELSE c.hr + Scale(target - c.hr, RateNum * dt, RateDen * 1000)
        ELSE target

InterpolateSpo2(m, dt) ==
    LET c == m.currentParams.spo2
        t == m.interpolationTargetParams.spo2
    IN  [value |-> Approach(c.value, t.value, dt, RateNum, RateDen),
         shape |-> IF c.shape # t.shape /\ ~m.isSpo2UpdatePending
                   THEN t.shape ELSE c.shape]

InterpolateAbp(m, dt) ==
    LET c == m.currentParams.abp
        t == m.interpolationTargetParams.abp
        sys1 == Approach(c.sys, t.sys, dt, RateNum, RateDen)
        dia1 == Approach(c.dia, t.dia, dt, RateNum, RateDen)
        dia2 == Max(0, dia1)
        sys2 == Max(dia2 + 1000, sys1)
        zero == /\ t.sys = 0 /\ t.dia = 0
                /\ Abs(sys2) < 2 * SnapThreshold
                /\ Abs(dia2) < 2 * SnapThreshold
    IN  [sys |-> IF zero THEN 0 ELSE sys2,
         dia |-> IF zero THEN 0 ELSE dia2,
         shape |-> IF c.shape # t.shape /\ ~m.isAbpUpdatePending
                   THEN t.shape ELSE c.shape]

\* _animationLoop after the catch-up loop; dt is interpolationDelta in ms
Interpolate(m, dt) ==
    IF dt > 0
    THEN [m EXCEPT
            !.currentParams.ecg.hr = InterpolateHr(m, dt),
            !.currentParams.spo2 = InterpolateSpo2(m, dt),
            !.currentParams.abp = InterpolateAbp(m, dt),
            !.currentParams.etco2.unitPref =
                m.interpolationTargetParams.etco2.unitPref,
            !.currentParams.temp.valueC =
                Approach(@, m.interpolationTargetParams.temp.valueC, dt,
                         RateNum, 2 * RateDen)]
    ELSE m

(* ------------------------------------------------------------------ *)
(* Start and stop                                                      *)
(* ------------------------------------------------------------------ *)
ClearPending(m) ==
    [m EXCEPT !.pendingEtco2Params = Null, !.isEtco2UpdatePending = FALSE,
              !.pendingSpo2Params = Null, !.isSpo2UpdatePending = FALSE,
              !.pendingAbpParams = Null, !.isAbpUpdatePending = FALSE]

startAnimation(m) ==
    IF m.animationRunning THEN m
    ELSE
    LET cur == [m.targetParams EXCEPT
                   !.ecg.params = RHYTHM_PARAMS(m.targetParams.ecg.rhythm),
                   !.nibp = NoNibp]
        m1 == [ClearPending(m) EXCEPT
                 !.currentParams = cur,
                 !.interpolationTargetParams = cur,
                 !.sweepIndex = 0, !.etco2SweepIndex = 0,
                 !.buffers = EmptyBuffers,
                 !.rhythmTime = 0, !.respiratoryTime = 0,
                 !.lastTimestamp = 0, !.simulationTimeAccumulator = 0,
                 !.ecgState = EmptyEcgState,
                 !.lastBeatTime = 0, !.nextBeatTime = 0,
                 !.lastBreathTime = NegInfinity, !.nextBreathTime = 0,
                 !.lastCompressionTime = NegInfinity,
                 !.nextCompressionTime = 0]
        m2 == _resetBreathTiming(_calculateNextBeatTime(m1),
                                 RawBreathInterval(cur.etco2.rr))
    IN  [m2 EXCEPT !.shockRequested = FALSE, !.animationRunning = TRUE]

stopAnimation(m) ==
    IF ~m.animationRunning THEN m
    ELSE [ClearPending(m) EXCEPT
            !.animationRunning = FALSE, !.shockRequested = FALSE,
            !.ecgState = EmptyEcgState,
            !.sweepIndex = 0, !.etco2SweepIndex = 0,
            !.rhythmTime = 0, !.respiratoryTime = 0,
            !.simulationTimeAccumulator = 0,
            !.lastBeatTime = NegInfinity, !.nextBeatTime = 0,
            !.lastBreathTime = NegInfinity, !.nextBreathTime = 0,
            !.lastCompressionTime = NegInfinity, !.nextCompressionTime = 0,
            !.buffers = EmptyBuffers]

(* ------------------------------------------------------------------ *)
(* Shock                                                               *)
(* ------------------------------------------------------------------ *)
\* _calculateInitialHR: initial rate (thousandths) for a rhythm and a slider
\* value (beats per minute)
_calculateInitialHR(ecgParams, sliderValue) ==
    IF \/ ecgParams.isPEA \/ ecgParams.isChaotic \/ ecgParams.isFlat
       \/ (ecgParams.isArtifact /\ ecgParams.artifactType = "cpr")
    THEN 0
    ELSE IF ecgParams.generatorType = "avBlock"
         THEN ecgParams.baseHR * 1000
         ELSE sliderValue * 1000

\* the artifact loop: SHOCK_ARTIFACT_SAMPLES samples written at the cursor
RECURSIVE ShockArtifact(_, _)
ShockArtifact(m, i) ==
    IF i >= SHOCK_ARTIFACT_SAMPLES THEN m
    ELSE LET si == IF m.sweepIndex >= BUFFER_SIZE THEN 0 ELSE m.sweepIndex
         IN  ShockArtifact(
                 [m EXCEPT !.buffers.sweepBufferECG[si] = "shock",
                           !.sweepIndex = si + 1],
                 i + 1)

\* value of the rhythm <select>: updateControlsToReflectParams writes the
\* requested rhythm into it, and a value that is no option reads back as ""
RhythmSelectValue(m) ==
    IF InCatalog(m.targetParams.ecg.rhythm)
    THEN m.targetParams.ecg.rhythm ELSE ""

\* faulty variant: the first beat stays at the end of the artifact burst, the
\* schedule is not recomputed from the post-shock rate
ShockEcgTiming_NoReschedule(m, shockStartTime) ==
    [m EXCEPT !.ecgState = EmptyEcgState,
              !.lastBeatTime = NegInfinity,
              !.nextBeatTime = shockStartTime
                  + SHOCK_ARTIFACT_SAMPLES * StepMs + 50]

\* nextBeatTime = shockStartTime + SHOCK_ARTIFACT_SAMPLES / SAMPLE_RATE + 0.05
\* and the reschedule that follows it
\* faulty variant: the generator state survives the shock
ShockEcgTiming_KeepState(m, shockStartTime) ==
    _calculateNextBeatTime(
        [m EXCEPT !.lastBeatTime = NegInfinity,
                  !.nextBeatTime = shockStartTime
                      + SHOCK_ARTIFACT_SAMPLES * StepMs + 50])

ShockEcgTiming(m, shockStartTime) ==
    _calculateNextBeatTime(
        [m EXCEPT !.ecgState = EmptyEcgState,
                  !.lastBeatTime = NegInfinity,
                  !.nextBeatTime = shockStartTime
                      + SHOCK_ARTIFACT_SAMPLES * StepMs + 50])

\* steps 1-5 of _executeShock for a rhythm of the catalog
ShockToRhythm(m, key) ==
    LET params == RHYTHM_PARAMS(key)
        pulseless == \/ params.isPEA \/ params.isChaotic \/ params.isFlat
                     \/ key = "vt_pulseless"
        newHr == IF pulseless THEN 0
                 ELSE _calculateInitialHR(params, params.baseHR)
        ecg == [rhythm |-> key, hr |-> newHr, params |-> params]
        spo2 == IF pulseless THEN [value |-> 0, shape |-> "no_signal"]
                ELSE [value |-> 98000, shape |-> "normal"]
        abp == IF pulseless THEN [sys |-> 0, dia |-> 0, shape |-> "damped"]
               ELSE [sys |-> 120000, dia |-> 80000, shape |-> "normal"]
        etco2 == IF pulseless
                 THEN [valueKpa |-> 0, rr |-> 0, etco2Shape |-> "disconnect",
                       unitPref |-> m.targetParams.etco2.unitPref]
                 ELSE [valueKpa |-> DEFAULT_ETCO2_KPA,
                       rr |-> DEFAULT_RESP_RATE, etco2Shape |-> "normal",
                       unitPref |-> m.targetParams.etco2.unitPref]
        m1 == [m EXCEPT
                 !.currentParams.ecg = ecg,
                 !.targetParams.ecg = ecg,
                 !.interpolationTargetParams.ecg = ecg,
                 !.targetParams.spo2 = spo2,
                 !.interpolationTargetParams.spo2 = spo2,
                 !.currentParams.spo2 = IF pulseless THEN spo2 ELSE @,
                 !.targetParams.abp = abp,
                 !.interpolationTargetParams.abp = abp,
                 !.currentParams.abp = IF pulseless THEN abp ELSE @,
                 !.targetParams.etco2 = etco2,
                 !.interpolationTargetParams.etco2 = etco2,
                 !.currentParams.etco2 = etco2]
    IN  _resetBreathTiming(ClearPending(m1), RawBreathInterval(etco2.rr))

\* remoteRhythmKey is "" for a local shock (null in the code)
_executeShock(m, role, remoteRhythmKey) ==
    LET shockStartTime == m.rhythmTime
        m1 == ShockArtifact(m, 0)
        key == IF role = "monitor" /\ remoteRhythmKey # ""
               THEN remoteRhythmKey ELSE RhythmSelectValue(m)
    IN  IF ~InCatalog(key)
        THEN ShockEcgTiming(m1, shockStartTime)
        ELSE ShockEcgTiming(ShockToRhythm(m1, key), shockStartTime)

requestShock(m) ==
    IF m.animationRunning THEN [m EXCEPT !.shockRequested = TRUE] ELSE m

(* ------------------------------------------------------------------ *)
(* Operator panel (controlHandlers.js) and network callbacks           *)
(* ------------------------------------------------------------------ *)
_handleEcgRhythmChange(m, rhythmKey) ==
    IF ~InCatalog(rhythmKey) THEN m
    ELSE
    LET params == RHYTHM_PARAMS(rhythmKey)
        t == m.targetParams
        isPulseless == \/ params.isPEA \/ params.isChaotic \/ params.isFlat
                       \/ rhythmKey = "vt_pulseless"
        restoreSpo2 == t.spo2.shape = "no_signal"
        restoreAbp == t.abp.shape = "damped" /\ (t.abp.sys = 0 \/ t.abp.dia = 0)
        restoreEtco2 == t.etco2.etco2Shape \in {"disconnect", "cpr_low_flow"}
    IN  IF isPulseless
        THEN [m EXCEPT
                !.targetParams.ecg =
                    [rhythm |-> rhythmKey, hr |-> 0, params |-> params],
                !.targetParams.spo2 = [value |-> 0, shape |-> "no_signal"],
                !.targetParams.abp =
                    [sys |-> 0, dia |-> 0, shape |-> "damped"],
                !.targetParams.etco2 =
                    [@ EXCEPT !.valueKpa = 0, !.rr = 0,
                              !.etco2Shape = "disconnect"]]
        ELSE [m EXCEPT
                !.targetParams.ecg =
                    [rhythm |-> rhythmKey,
                     hr |-> _calculateInitialHR(params, params.baseHR),
                     params |-> params],
                !.targetParams.spo2 =
                    IF restoreSpo2
                    THEN [value |-> 98000, shape |-> "normal"] ELSE @,
                !.targetParams.abp =
                    IF restoreAbp
                    THEN [sys |-> 120000, dia |-> 80000, shape |-> "normal"]
                    ELSE @,
                !.targetParams.etco2 =
                    IF restoreEtco2
                    THEN [@ EXCEPT !.valueKpa = DEFAULT_ETCO2_KPA,
                                   !.rr = DEFAULT_RESP_RATE,
                                   !.etco2Shape = "normal"]
                    ELSE @]

\* value in beats per minute
_handleHrSliderInput(m, value) ==
    LET e == m.targetParams.ecg
        isFixedOrPulseless ==
            \/ e.rhythm \in {"cpr_artifact", "vt_pulseless"}
            \/ e.params.isPEA \/ e.params.isChaotic \/ e.params.isFlat
    IN  IF isFixedOrPulseless
        THEN [m EXCEPT !.targetParams.ecg.hr = 0]
        ELSE IF e.params.generatorType = "avBlock"
             THEN m
             ELSE [m EXCEPT !.targetParams.ecg.hr = value * 1000]

_handleSpo2ShapeChange(m, shape) ==
    [m EXCEPT !.targetParams.spo2.shape = shape]

_handleAbpShapeChange(m, shape) ==
    [m EXCEPT !.targetParams.abp.shape = shape]

\* slider value in thousandths of a kPa (unit preference kPa)
_handleEtco2ValueInput(m, value) ==
    [m EXCEPT !.targetParams.etco2.valueKpa = value]

_handleEtco2RRInput(m, rr) ==
    [m EXCEPT !.targetParams.etco2.rr = rr]

_handleEtco2ShapeChange(m, shape) ==
    [m EXCEPT !.targetParams.etco2.etco2Shape = shape]

\* update delay 0: applyFn runs inside the click handler
_handleUpdateVitalsClick(m) ==
    IF ~m.animationRunning
    THEN [ClearPending(m) EXCEPT
            !.currentParams = m.targetParams,
            !.interpolationTargetParams = m.targetParams]
    ELSE initiateParameterChange(m)

_handleActivateClick(m) ==
    IF ~m.animationRunning THEN startAnimation(m) ELSE stopAnimation(m)

_handleEcgShock(m) ==
    IF m.animationRunning THEN requestShock(m) ELSE m

\* received: the ecg / spo2 / abp / etco2 / temp objects of the message
handleRemoteParamUpdate(m, received) ==
    LET t == [received EXCEPT
                 !.ecg.params = RHYTHM_PARAMS(received.ecg.rhythm)]
        m1 == [m EXCEPT !.targetParams = t]
    IN  IF ~m.animationRunning
        THEN [m1 EXCEPT !.currentParams = [t EXCEPT !.nibp = NoNibp],
                        !.interpolationTargetParams =
                            [t EXCEPT !.nibp = NoNibp]]
        ELSE initiateParameterChange(m1)

\* Math.round of a value in thousandths
RoundMilli(x) == ((x + 500) \div 1000) * 1000

\* the measurement _handleNibpStart takes from the requested pressures
NibpMeasurement(abp, measurementTime) ==
    LET targetSys == ensureFinite(abp.sys, 0)
        targetDia == ensureFinite(abp.dia, 0)
        measuredDia == Max(0, RoundMilli(targetDia))
        measuredSys == IF RoundMilli(targetSys) <= measuredDia
                       THEN measuredDia + 1000 ELSE RoundMilli(targetSys)
    IN  IF targetSys < 30000 /\ targetDia < 20000
        THEN [NoNibp EXCEPT !.timestamp = measurementTime]
        ELSE [sys |-> measuredSys, dia |-> measuredDia,
              map |-> RoundMilli(measuredDia
                                   + (measuredSys - measuredDia) \div 3),
              timestamp |-> measurementTime]

\* a measurement that is applied like a parameter change
_handleNibpStart_AsParameterChange(m, measurementTime) ==
    initiateParameterChange(
        [m EXCEPT !.targetParams.nibp =
                      NibpMeasurement(m.targetParams.abp, measurementTime)])

_handleNibpStart(m, measurementTime) ==
    LET measured == NibpMeasurement(m.targetParams.abp, measurementTime)
    IN  [m EXCEPT !.currentParams.nibp = measured,
                  !.targetParams.nibp = measured]

\* nibpData: the measurement of the message, or Null for an empty one
handleRemoteNibpTrigger(m, nibpData) ==
    IF nibpData = Null THEN m
    ELSE [m EXCEPT !.currentParams.nibp = nibpData,
                   !.targetParams.nibp = nibpData]

(* ------------------------------------------------------------------ *)
(* Inputs explored                                                     *)
(* ------------------------------------------------------------------ *)
Roles == {"controller", "monitor"}
BaseHRs == {75, 80}
\* options of the rhythm <select>, and rhythm keys a message can carry
RhythmOptions == KnownRhythms
RemoteRhythmKeys == KnownRhythms \cup {"bogus"}
HrSliderValues == {120}
Spo2Shapes == {"low_perfusion"}
AbpShapes == {"hyperdynamic"}
Etco2Values == {4000}
RespRates == {0, 60}
Etco2Shapes == {"bronchospasm"}
\* target amplitudes Math.random() can draw, in model units
ChaoticDraws == {-4, 4}
\* requestAnimationFrame deltas, in ms
FrameDeltas == {200}
PauseDeltas == {200, LongPauseMs}
\* panel state at activation: rhythm and respiratory rate
InitRhythms == {"normal", "vfib"}
InitRespRates == {120}

\* performance.now() of the first callback: only "non-zero" is observable,
\* later timestamps enter through the frame delta
TimestampRecorded == 1

NoBoundary == [beat |-> FALSE, breath |-> FALSE]

(* ------------------------------------------------------------------ *)
(* Initial state                                                       *)
(* ------------------------------------------------------------------ *)
\* the constructor, followed by the panel set-up an operator makes before
\* activation (rhythm, respiratory rate, Update with the simulation inactive)
SetupMode(rhythmKey, rr) ==
    LET m1 == _handleEcgRhythmChange(NewMonitor, rhythmKey)
        m2 == IF m1.targetParams.etco2.rr > 0
              THEN _handleEtco2RRInput(m1, rr) ELSE m1
    IN  _handleUpdateVitalsClick(m2)

Init ==
    /\ normalBaseHR \in BaseHRs
    /\ currentRole \in Roles
    /\ \E rhythmKey \in InitRhythms, rr \in InitRespRates :
           monitor = SetupMode(rhythmKey, rr)
    /\ chaotic = NewChaotic
    /\ pc = "idle"
    /\ frameDelta = 0
    /\ frameSteps = 0
    /\ lastOp = "constructor"
    /\ boundary = NoBoundary
    /\ opCount = 0
    /\ server = NewServer
    /\ sample = NoSample
    /\ timers = NoTimers
    /\ network = NoNetwork

(* ------------------------------------------------------------------ *)
(* Actions                                                             *)
(* ------------------------------------------------------------------ *)
\* an operator or network event: handled between rendering callbacks
Operate(op, m) ==
    /\ pc = "idle"
    /\ opCount < MaxOps
    /\ m # monitor
    /\ monitor' = m
    /\ lastOp' = op
    /\ opCount' = opCount + 1
    /\ boundary' = NoBoundary
    /\ timers' = IF op \in TimeoutClearingOps
                 THEN ClearUpdateTimeout(timers) ELSE timers
    /\ UNCHANGED <<network, sample, server, chaotic, currentRole, normalBaseHR, pc,
                   frameDelta, frameSteps>>

EcgRhythmChange ==
    /\ currentRole = "controller"
    /\ \E key \in RhythmOptions :
           Operate("_handleEcgRhythmChange",
                   _handleEcgRhythmChange(monitor, key))

HrSliderInput ==
    /\ currentRole = "controller"
    /\ \E v \in HrSliderValues :
           Operate("_handleHrSliderInput", _handleHrSliderInput(monitor, v))

Spo2ShapeChange ==
    /\ currentRole = "controller"
    /\ \E sh \in Spo2Shapes :
           Operate("_handleSpo2ShapeChange",
                   _handleSpo2ShapeChange(monitor, sh))

AbpShapeChange ==
    /\ currentRole = "controller"
    /\ \E sh \in AbpShapes :
           Operate("_handleAbpShapeChange", _handleAbpShapeChange(monitor, sh))

Etco2ValueInput ==
    /\ currentRole = "controller"
    /\ \E v \in Etco2Values :
           Operate("_handleEtco2ValueInput",
                   _handleEtco2ValueInput(monitor, v))

Etco2RRInput ==
    /\ currentRole = "controller"
    /\ \E rr \in RespRates :
           Operate("_handleEtco2RRInput", _handleEtco2RRInput(monitor, rr))

Etco2ShapeChange ==
    /\ currentRole = "controller"
    /\ \E sh \in Etco2Shapes :
           Operate("_handleEtco2ShapeChange",
                   _handleEtco2ShapeChange(monitor, sh))

UpdateVitalsClick ==
    /\ currentRole = "controller"
    /\ Operate("_handleUpdateVitalsClick", _handleUpdateVitalsClick(monitor))

ActivateClick ==
    /\ currentRole = "controller"
    /\ Operate("_handleActivateClick", _handleActivateClick(monitor))

EcgShock ==
    /\ currentRole = "controller"
    /\ Operate("_handleEcgShock", _handleEcgShock(monitor))

\* parameter objects a controller sends after one panel edit, and a message
\* naming a rhythm that is not in the catalog
RemotePayloads(m) ==
    {_handleEcgRhythmChange(m, key).targetParams : key \in RhythmOptions}
    \cup {_handleHrSliderInput(m, v).targetParams : v \in HrSliderValues}
    \cup {_handleSpo2ShapeChange(m, sh).targetParams : sh \in Spo2Shapes}
    \cup {_handleAbpShapeChange(m, sh).targetParams : sh \in AbpShapes}
    \cup {_handleEtco2ValueInput(m, v).targetParams : v \in Etco2Values}
    \cup {_handleEtco2RRInput(m, rr).targetParams : rr \in RespRates}
    \cup {_handleEtco2ShapeChange(m, sh).targetParams : sh \in Etco2Shapes}
    \cup {[m.targetParams EXCEPT !.ecg.rhythm = "bogus"]}

RemoteParamUpdate ==
    /\ currentRole = "monitor"
    /\ \E received \in RemotePayloads(monitor) :
           Operate("handleRemoteParamUpdate",
                   handleRemoteParamUpdate(monitor, received))

RemoteActivate ==
    /\ currentRole = "monitor"
    /\ Operate("startAnimation", startAnimation(monitor))

RemoteDeactivate ==
    /\ currentRole = "monitor"
    /\ Operate("stopAnimation", stopAnimation(monitor))

RemoteShock ==
    /\ currentRole = "monitor"
    /\ \E key \in RemoteRhythmKeys :
           Operate("_executeShock", _executeShock(monitor, "monitor", key))

\* _animationLoop up to the catch-up loop: a requested shock is executed,
\* the first callback only records its timestamp, later ones add their delta
\* to the accumulator
AnimationFrameOf(deltas, horizon) ==
    /\ pc = "idle"
    /\ monitor.animationRunning
    /\ LET shock == monitor.shockRequested
           m1 == IF shock
                 THEN _executeShock([monitor EXCEPT !.shockRequested = FALSE],
                                    currentRole, "")
                 ELSE monitor
       IN  /\ lastOp' = IF shock THEN "_executeShock" ELSE "_animationLoop"
           /\ IF m1.lastTimestamp = 0
              THEN /\ monitor' = [m1 EXCEPT !.lastTimestamp = TimestampRecorded]
                   /\ UNCHANGED <<pc, frameDelta, frameSteps>>
              ELSE \E dt \in deltas :
                     /\ m1.rhythmTime + m1.simulationTimeAccumulator + dt
                            <= horizon
                     /\ monitor' =
                            [m1 EXCEPT !.simulationTimeAccumulator = @ + dt]
                     /\ pc' = "loop"
                     /\ frameDelta' = dt
                     /\ frameSteps' = 0
    /\ boundary' = NoBoundary
    /\ timers' = IF monitor.shockRequested
                 THEN ClearUpdateTimeout(timers) ELSE timers
    /\ UNCHANGED <<network, sample, server, chaotic, currentRole, normalBaseHR, opCount>>

AnimationFrame == AnimationFrameOf(FrameDeltas, MaxRhythmTime)

\* one iteration of the catch-up loop
LoopStep ==
    /\ pc = "loop"
    /\ monitor.simulationTimeAccumulator >= StepMs
    /\ LET isChaotic ==
               monitor.currentParams.ecg.params.generatorType = "chaotic"
           draws == IF isChaotic /\ chaotic.holdCounter <= 0
                    THEN ChaoticDraws ELSE {0}
           advanced == [monitor EXCEPT !.rhythmTime = @ + StepMs,
                                       !.respiratoryTime = @ + StepMs]
       IN  /\ \E rnd \in draws :
                 chaotic' = IF isChaotic THEN generateChaotic(chaotic, rnd)
                            ELSE chaotic
           /\ monitor' = [updateWaveforms(monitor) EXCEPT
                             !.simulationTimeAccumulator = @ - StepMs]
           /\ boundary' =
                 [beat |-> BeatDue(advanced),
                  breath |-> advanced.respiratoryTime
                                 >= advanced.nextBreathTime]
    /\ frameSteps' = frameSteps + 1
    /\ lastOp' = "updateWaveforms"
    /\ UNCHANGED <<network, timers, sample, server, currentRole, normalBaseHR, pc, frameDelta, opCount>>

\* the catch-up loop left with the accumulator emptied
LoopEnd_DropRemainder ==
    /\ pc = "loop"
    /\ monitor.simulationTimeAccumulator < StepMs
    /\ monitor' = [Interpolate(monitor, frameDelta) EXCEPT
                      !.simulationTimeAccumulator = 0]
    /\ pc' = "idle"
    /\ lastOp' = "interpolation"
    /\ boundary' = NoBoundary
    /\ UNCHANGED <<network, timers, sample, server, chaotic, currentRole, normalBaseHR, frameDelta, frameSteps,
                   opCount>>

\* _animationLoop after the catch-up loop
LoopEnd ==
    /\ pc = "loop"
    /\ monitor.simulationTimeAccumulator < StepMs
    /\ monitor' = Interpolate(monitor, frameDelta)
    /\ pc' = "idle"
    /\ lastOp' = "interpolation"
    /\ boundary' = NoBoundary
    /\ UNCHANGED <<network, timers, sample, server, chaotic, currentRole, normalBaseHR, frameDelta, frameSteps,
                   opCount>>

PanelEvent ==
    \/ EcgRhythmChange \/ HrSliderInput \/ Spo2ShapeChange \/ AbpShapeChange
    \/ Etco2ValueInput \/ Etco2RRInput \/ Etco2ShapeChange
    \/ UpdateVitalsClick \/ ActivateClick \/ EcgShock

NetworkEvent ==
    \/ RemoteParamUpdate \/ RemoteActivate \/ RemoteDeactivate \/ RemoteShock

Next ==
    \/ PanelEvent
    \/ NetworkEvent
    \/ AnimationFrame
    \/ LoopStep
    \/ LoopEnd

Spec == Init /\ [][Next]_vars

TypeOK ==
    /\ pc \in {"idle", "loop"}
    /\ currentRole \in Roles
    /\ monitor.simulationTimeAccumulator >= 0
    /\ opCount \in 0..MaxOps

(* ------------------------------------------------------------------ *)
(* Callbacks after a suspension of the page                            *)
(* ------------------------------------------------------------------ *)
\* the same engine with callbacks that may arrive LongPauseMs apart, and
\* the events that start a run and request a new heart rate
AnimationFrameAfterPause == AnimationFrameOf(PauseDeltas, MaxPauseTime)

NextPause ==
    \/ ActivateClick
    \/ HrSliderInput
    \/ UpdateVitalsClick
    \/ AnimationFrameAfterPause
    \/ LoopStep
    \/ LoopEnd

SpecPause == Init /\ [][NextPause]_vars

(* ------------------------------------------------------------------ *)
(* Properties                                                          *)
(* ------------------------------------------------------------------ *)
Running == monitor.animationRunning
Current == monitor.currentParams

\* a step of the running simulation that leaves the rhythm alone and is
\* neither a shock, a start nor a stop
QuietStep ==
    /\ monitor.animationRunning
    /\ monitor'.animationRunning
    /\ monitor'.currentParams.ecg.rhythm = monitor.currentParams.ecg.rhythm
    /\ lastOp' \notin {"_executeShock", "_handleActivateClick",
                       "startAnimation", "stopAnimation"}

\* C1: while a beat-based rhythm runs with perfusing shapes, the SpO2 shape
\* and the ABP shape of `current` change only in a logical step that crosses
\* a beat boundary; at every other step they keep their value.
C1_ShapesChangeOnlyAtBeat ==
    [][ ( /\ QuietStep
          /\ Current.ecg.params.generatorType = "pqrst"
          /\ Current.spo2.shape # "no_signal"
          /\ Current.abp.shape # "damped"
          /\ \/ monitor'.currentParams.spo2.shape # Current.spo2.shape
             \/ monitor'.currentParams.abp.shape # Current.abp.shape )
        => (lastOp' = "updateWaveforms" /\ boundary'.beat) ]_vars

\* C2: while the simulation runs without rhythm switch, shock, start or
\* stop, the ETCO2 value, respiratory rate and capnogram shape of `current`
\* change only in a logical step at which respiratory time has reached the
\* scheduled breath time, and what they take is the pending snapshot.
C2_Etco2ChangesOnlyAtBreath ==
    [][ ( /\ QuietStep
          /\ Etco2Core(monitor'.currentParams.etco2) # Etco2Core(Current.etco2) )
        => ( /\ lastOp' = "updateWaveforms"
             /\ boundary'.breath
             /\ monitor.isEtco2UpdatePending
             /\ monitor'.currentParams.etco2 = monitor.pendingEtco2Params
             /\ ~monitor'.isEtco2UpdatePending ) ]_vars

\* a run started at 120 breaths/min whose request for 60 was taken over at
\* the first breath boundary (0.5 s), the next breath scheduled 1 s later
C2_Witness ==
    /\ Running
    /\ lastOp = "updateWaveforms"
    /\ boundary.breath
    /\ Current.etco2.rr = 60
    /\ monitor.respiratoryTime = 500
    /\ monitor.lastBreathTime = 500
    /\ monitor.nextBreathTime = 1500
    /\ ~monitor.isEtco2UpdatePending

\* the companion channels of a pulseless, flat rhythm
AsystoleVitals(p) ==
    /\ p.spo2.value = 0 /\ p.spo2.shape = "no_signal"
    /\ p.abp.sys = 0 /\ p.abp.dia = 0 /\ p.abp.shape = "damped"
    /\ p.etco2.valueKpa = 0 /\ p.etco2.etco2Shape = "disconnect"

\* C3: the operation that switches the running rhythm to asystole leaves
\* `current` with SpO2 0 / no_signal, ABP 0/0 / damped and ETCO2 0 /
\* disconnect, and every later rendering callback (its interpolation step)
\* leaves them so while the rhythm stays asystole.
C3_AsystoleSnapHeld ==
    [][ ( /\ monitor'.animationRunning
          /\ monitor'.currentParams.ecg.rhythm = "asystole"
          /\ \/ (Running /\ Current.ecg.rhythm # "asystole")
             \/ lastOp' = "interpolation" )
        => AsystoleVitals(monitor'.currentParams) ]_vars

\* the switch itself snaps the companion channels (the part that holds)
C3_SwitchSnaps ==
    [][ ( /\ Running /\ monitor'.animationRunning
          /\ Current.ecg.rhythm # "asystole"
          /\ monitor'.currentParams.ecg.rhythm = "asystole" )
        => AsystoleVitals(monitor'.currentParams) ]_vars

\* new lies between cur and target: a move toward the target that does not
\* pass it
Toward(cur, new, target) ==
    IF cur <= target THEN cur <= new /\ new <= target
    ELSE target <= new /\ new <= cur

\* C4: with the interpolation target left alone, each rendering callback
\* moves every interpolated numeric field of `current` (heart rate,
\* saturation, systolic, diastolic, temperature) toward its target without
\* passing it, and sets it to the target once within the snap threshold.
C4_InterpolationMonotone ==
    [][ (lastOp' = "interpolation")
        => LET c == Current
               n == monitor'.currentParams
               t == monitor.interpolationTargetParams
           IN  /\ Toward(c.ecg.hr, n.ecg.hr, t.ecg.hr)
               /\ Toward(c.spo2.value, n.spo2.value, t.spo2.value)
               /\ Toward(c.abp.sys, n.abp.sys, t.abp.sys)
               /\ Toward(c.abp.dia, n.abp.dia, t.abp.dia)
               /\ Toward(c.temp.valueC, n.temp.valueC, t.temp.valueC)
               /\ (Abs(t.ecg.hr - c.ecg.hr) <= SnapThreshold
                       => n.ecg.hr = t.ecg.hr) ]_vars

\* C4, heart rate only: a callback never carries the heart rate of a
\* beating rhythm past its target
C4_HrNoOvershoot ==
    [][ ( /\ lastOp' = "interpolation"
          /\ Current.ecg.params.generatorType = "pqrst" )
        => Toward(Current.ecg.hr, monitor'.currentParams.ecg.hr,
                  monitor.interpolationTargetParams.ecg.hr) ]_vars

\* C5: a rendering callback that arrives after a long pause runs a clamped
\* number of catch-up steps: when it ends, the logical steps it has run add
\* up to less simulated time than the pause lasted.
C5_CatchUpClamped ==
    (pc = "idle" /\ lastOp = "interpolation" /\ frameDelta >= LongPauseMs)
        => frameSteps * StepMs < frameDelta

\* C6: a parameter update or a shock that names a rhythm identifier outside
\* the catalog does not switch the running engine to it: no step leaves
\* `current` with a rhythm key outside the catalog unless the key and the
\* generator parameters are the ones `current` had before the step.
C6_UnknownRhythmRefused ==
    [][ ( /\ Running
          /\ ~InCatalog(monitor'.currentParams.ecg.rhythm) )
        => ( /\ monitor'.currentParams.ecg.rhythm = Current.ecg.rhythm
             /\ monitor'.currentParams.ecg.params = Current.ecg.params ) ]_vars

\* the shock half of C6: a shock naming an unknown rhythm leaves the rhythm
\* key and generator parameters of `current` alone
C6_ShockRefusesUnknown ==
    [][ (Running /\ lastOp' = "_executeShock")
        => ( \/ InCatalog(monitor'.currentParams.ecg.rhythm)
             \/ ( /\ monitor'.currentParams.ecg.rhythm = Current.ecg.rhythm
                  /\ monitor'.currentParams.ecg.params = Current.ecg.params )
           ) ]_vars

\* C7: every pending ETCO2 update is eventually applied.  Stated on states:
\* whenever an update is pending in the running simulation, the breath
\* boundary that will apply it is scheduled at a finite time.
C7_PendingHasBoundary ==
    (Running /\ monitor.isEtco2UpdatePending)
        => monitor.nextBreathTime < Infinity

\* a pending update whose boundary is at infinity survives every step of the
\* rendering callback: the engine alone never applies it
C7_StuckStaysStuck ==
    [][ ( /\ Running /\ monitor.isEtco2UpdatePending
          /\ monitor.nextBreathTime = Infinity
          /\ lastOp' \in {"_animationLoop", "updateWaveforms",
                          "interpolation"} )
        => ( /\ monitor'.isEtco2UpdatePending
             /\ monitor'.nextBreathTime = Infinity
             /\ monitor'.currentParams.etco2 = Current.etco2 ) ]_vars

\* the time the scheduler measured the next beat from
BeatBase(m) ==
    IF m.lastBeatTime = NegInfinity THEN m.rhythmTime ELSE m.lastBeatTime

\* C8: with normal sinus rhythm running and the requested heart rate 120,
\* every computation of the next beat time puts it 0.5 s after the time it
\* is measured from: in the operation that applies the change (measured from
\* the current rhythm time) and at every later beat (measured from the beat
\* just reached), whatever the interpolating heart rate in `current` is.
C8_BeatIntervalFromTarget ==
    [][ ( /\ monitor'.animationRunning
          /\ monitor'.currentParams.ecg.rhythm = "normal"
          /\ monitor'.interpolationTargetParams.ecg.hr = 120000
          /\ \/ monitor'.nextBeatTime # monitor.nextBeatTime
             \/ monitor'.lastBeatTime # monitor.lastBeatTime )
        => ( /\ monitor'.nextBeatTime = BeatBase(monitor') + 500
             /\ (lastOp' = "updateWaveforms" =>
                     /\ boundary'.beat
                     /\ monitor'.lastBeatTime = monitor.nextBeatTime) ) ]_vars

\* the second beat after a change from 75 to 120: reached 0.5 s after the
\* first while the heart rate in `current` is still between 75 and 120
C8_Witness ==
    /\ normalBaseHR = 75
    /\ Running /\ lastOp = "updateWaveforms" /\ boundary.beat
    /\ Current.ecg.rhythm = "normal"
    /\ monitor.interpolationTargetParams.ecg.hr = 120000
    /\ Current.ecg.hr > 75000 /\ Current.ecg.hr < 120000
    /\ monitor.lastBeatTime = 1000 /\ monitor.nextBeatTime = 1500

\* the buffer positions an artifact burst starting at the cursor occupies
BurstPositions ==
    {(WrapIndex(monitor.sweepIndex, BUFFER_SIZE) + i) % BUFFER_SIZE :
         i \in 0..(SHOCK_ARTIFACT_SAMPLES - 1)}

\* C9: a shock delivered while a chaotic rhythm is rendering, with normal
\* sinus rhythm at 80 as the post-shock rhythm, writes the artifact into
\* exactly SHOCK_ARTIFACT_SAMPLES = 15 positions of the ECG buffer (the 15
\* positions from the cursor on, every other position untouched) and
\* schedules the first beat 0.75 s after the shock; every later beat of the
\* rhythm is scheduled 0.75 s after the beat just reached.
C9_ShockBurstThenBeats ==
    [][ /\ ( ( /\ Running
               /\ lastOp' = "_executeShock"
               /\ Current.ecg.params.generatorType = "chaotic"
               /\ monitor'.currentParams.ecg.rhythm = "normal"
               /\ normalBaseHR = 80 )
             => ( /\ Cardinality(BurstPositions) = SHOCK_ARTIFACT_SAMPLES
                  /\ \A i \in 0..(BUFFER_SIZE - 1) :
                        monitor'.buffers.sweepBufferECG[i] =
                            IF i \in BurstPositions THEN "shock"
                            ELSE monitor.buffers.sweepBufferECG[i]
                  /\ monitor'.currentParams.ecg.hr = 80000
                  /\ monitor'.lastBeatTime = NegInfinity
                  /\ monitor'.nextBeatTime = monitor.rhythmTime + 750 ) )
        /\ ( ( /\ Running
               /\ lastOp' = "updateWaveforms"
               /\ Current.ecg.rhythm = "normal"
               /\ monitor.interpolationTargetParams.ecg.hr = 80000
               /\ monitor'.nextBeatTime # monitor.nextBeatTime )
             => ( /\ boundary'.beat
                  /\ monitor'.lastBeatTime = monitor.nextBeatTime
                  /\ monitor'.nextBeatTime = monitor'.lastBeatTime + 750 ) )
      ]_vars

\* the state a shock at 0.2 s out of fibrillation leaves: 15 artifact
\* samples in the ECG buffer, normal sinus at 80, first beat due at 0.95 s
C9_Witness ==
    /\ normalBaseHR = 80
    /\ Running /\ lastOp = "_executeShock"
    /\ chaotic # NewChaotic
    /\ Current.ecg.rhythm = "normal" /\ Current.ecg.hr = 80000
    /\ Cardinality({i \in 0..(BUFFER_SIZE - 1) :
                        monitor.buffers.sweepBufferECG[i] = "shock"})
           = SHOCK_ARTIFACT_SAMPLES
    /\ monitor.rhythmTime = 200
    /\ monitor.nextBeatTime = 950

\* C10: a shock out of a chaotic rhythm leaves no chaotic-generator state:
\* the last and next target amplitudes, the hold counter and the
\* interpolation step are at their initial values after the shock.
C10_ShockResetsChaotic ==
    [][ ( /\ Running
          /\ lastOp' = "_executeShock"
          /\ Current.ecg.params.generatorType = "chaotic"
          /\ monitor'.currentParams.ecg.params.generatorType # "chaotic" )
        => chaotic' = NewChaotic ]_vars

\* the step is a stop of the running simulation
StopStep == Running /\ ~monitor'.animationRunning

\* schedules, cursors, buffers, per-run generator state and pending updates
\* of the engine object are at their initial values
EngineReset(m) ==
    /\ m.rhythmTime = 0 /\ m.respiratoryTime = 0
    /\ m.simulationTimeAccumulator = 0
    /\ m.nextBeatTime = 0 /\ m.lastBeatTime = NegInfinity
    /\ m.nextBreathTime = 0 /\ m.lastBreathTime = NegInfinity
    /\ m.nextCompressionTime = 0 /\ m.lastCompressionTime = NegInfinity
    /\ m.sweepIndex = 0 /\ m.etco2SweepIndex = 0
    /\ m.buffers = EmptyBuffers
    /\ m.ecgState = EmptyEcgState
    /\ ~m.shockRequested
    /\ ~m.isEtco2UpdatePending /\ m.pendingEtco2Params = Null
    /\ ~m.isSpo2UpdatePending /\ m.pendingSpo2Params = Null
    /\ ~m.isAbpUpdatePending /\ m.pendingAbpParams = Null

\* C11: a stop resets all schedules, all sweep buffers and cursors, the
\* generator state (the chaotic generator's included) and all pending-update
\* flags and snapshots to their initial values.
C11_StopResetsAll ==
    [][ StopStep => (EngineReset(monitor') /\ chaotic' = NewChaotic) ]_vars

\* the part of C11 that concerns the engine object alone
C11_StopResetsEngine ==
    [][ StopStep => EngineReset(monitor') ]_vars

\* what C12 compares: running flag, `current`, interpolation target, pending
\* flags and snapshots, schedules, cursors and sweep buffers
EngineView(m) ==
    [m EXCEPT !.targetParams = InitialTargetParams,
              !.shockRequested = FALSE,
              !.simulationTimeAccumulator = 0,
              !.lastTimestamp = 0]

\* the engine states one panel edit leaves before the Update button is used
PanelEdits(m) ==
    {_handleEcgRhythmChange(m, key) : key \in RhythmOptions}
    \cup {_handleHrSliderInput(m, v) : v \in HrSliderValues}
    \cup {_handleSpo2ShapeChange(m, sh) : sh \in Spo2Shapes}
    \cup {_handleAbpShapeChange(m, sh) : sh \in AbpShapes}
    \cup {_handleEtco2ValueInput(m, v) : v \in Etco2Values}
    \cup {_handleEtco2RRInput(m, rr) : rr \in RespRates}
    \cup {_handleEtco2ShapeChange(m, sh) : sh \in Etco2Shapes}

\* set-target-parameters: Update button against the forwarded parameters
ParamUpdateSame(m) ==
    \A e \in PanelEdits(m) :
        EngineView(_handleUpdateVitalsClick(e)) =
            EngineView(handleRemoteParamUpdate(m, e.targetParams))

\* activate / deactivate: the button against the forwarded command
ActivateSame(m) ==
    EngineView(_handleActivateClick(m)) =
        EngineView(IF m.animationRunning THEN stopAnimation(m)
                   ELSE startAnimation(m))

\* shock: the button (request, executed by the next callback) against the
\* forwarded command naming the rhythm the controller's panel selects
ShockSame(m) ==
    LET requested == _handleEcgShock(m)
        local == IF requested.shockRequested
                 THEN _executeShock(requested, "controller", "")
                 ELSE requested
        remote == _executeShock(m, "monitor", RhythmSelectValue(m))
    IN  EngineView(local) = EngineView(remote)

\* C12: from every engine state, running or stopped, the local and the
\* forwarded form of a set-target-parameters, activate, deactivate or shock
\* event lead to equal `current`, interpolation target, pending flags,
\* schedules and sweep buffers.
C12_LocalRemoteEqual ==
    pc = "idle" =>
        (ParamUpdateSame(monitor) /\ ActivateSame(monitor)
            /\ ShockSame(monitor))

\* C12 without the shock of a stopped engine
C12_EqualExceptStoppedShock ==
    pc = "idle" =>
        ( /\ ParamUpdateSame(monitor) /\ ActivateSame(monitor)
          /\ (Running => ShockSame(monitor)) )

(* ------------------------------------------------------------------ *)
(* Normal sinus rhythm set up with a heart rate of 0                   *)
(* ------------------------------------------------------------------ *)
\* panel set-up before activation: normal rhythm, HR slider moved to 0
InitZeroRate ==
    /\ normalBaseHR \in BaseHRs
    /\ currentRole \in Roles
    /\ \E rr \in InitRespRates :
           monitor = _handleUpdateVitalsClick(
                         _handleHrSliderInput(SetupMode("normal", rr), 0))
    /\ chaotic = NewChaotic
    /\ pc = "idle"
    /\ frameDelta = 0
    /\ frameSteps = 0
    /\ lastOp = "constructor"
    /\ boundary = NoBoundary
    /\ opCount = 0
    /\ server = NewServer
    /\ sample = NoSample
    /\ timers = NoTimers
    /\ network = NoNetwork

NextZeroRate ==
    \/ ActivateClick
    \/ HrSliderInput
    \/ UpdateVitalsClick
    \/ AnimationFrame
    \/ LoopStep
    \/ LoopEnd

SpecZeroRate == InitZeroRate /\ [][NextZeroRate]_vars

BeatBased(m) ==
    m.currentParams.ecg.params.generatorType \in {"pqrst", "avBlock", "paced"}

\* C13: while a beat-based rhythm runs with rate 0 the next beat time is
\* infinite, no logical step crosses a beat boundary, and the last beat time
\* never becomes the infinite time a beat at infinity would record.
C13_ZeroRateNeverFires ==
    (Running /\ BeatBased(monitor) /\ BeatRate(monitor) = 0)
        => ( /\ monitor.nextBeatTime = Infinity
             /\ ~boundary.beat
             /\ monitor.lastBeatTime < Infinity )

\* 1.2 s of normal sinus rhythm rendered at rate 0 with no beat scheduled
C13_Witness ==
    /\ Running /\ BeatBased(monitor) /\ BeatRate(monitor) = 0
    /\ lastOp = "interpolation"
    /\ monitor.rhythmTime = MaxRhythmTime
    /\ monitor.nextBeatTime = Infinity

\* once the rate is positive again beats are scheduled and reached
C13_BeatsResume ==
    /\ Running /\ BeatBased(monitor) /\ BeatRate(monitor) = 120000
    /\ lastOp = "updateWaveforms" /\ boundary.beat
    /\ monitor.lastBeatTime = 700

(* ------------------------------------------------------------------ *)
(* A respiratory rate whose period is not a whole number of steps      *)
(* ------------------------------------------------------------------ *)
\* 60 / 70 s = 857.14 ms, between 85 and 86 logical steps
OddRespRates == {70}

InitOddBreath ==
    /\ normalBaseHR \in BaseHRs
    /\ currentRole \in Roles
    /\ \E rr \in OddRespRates : monitor = SetupMode("normal", rr)
    /\ chaotic = NewChaotic
    /\ pc = "idle"
    /\ frameDelta = 0
    /\ frameSteps = 0
    /\ lastOp = "constructor"
    /\ boundary = NoBoundary
    /\ opCount = 0
    /\ server = NewServer
    /\ sample = NoSample
    /\ timers = NoTimers
    /\ network = NoNetwork

NextOddBreath ==
    \/ ActivateClick
    \/ AnimationFrame
    \/ LoopStep
    \/ LoopEnd

SpecOddBreath == InitOddBreath /\ [][NextOddBreath]_vars

\* C14 (breaths): with a respiratory rate > 0 and no update pending, the
\* breath scheduled at a breath boundary lies 60/rate after the breath that
\* was scheduled before it, within 1 ms.
C14_BreathSpacing ==
    [][ ( /\ Running /\ monitor'.animationRunning
          /\ lastOp' = "updateWaveforms" /\ boundary'.breath
          /\ ~monitor.isEtco2UpdatePending
          /\ Current.etco2.rr > 0 )
        => Abs((monitor'.nextBreathTime - monitor.nextBreathTime)
               - 60000 \div Current.etco2.rr) <= 1 ]_vars

\* C14 (beats): without irregularity the beat scheduled at a beat boundary
\* lies exactly 60/rate after the beat just reached
C14_BeatSpacing ==
    [][ ( /\ Running /\ monitor'.animationRunning
          /\ lastOp' = "updateWaveforms" /\ boundary'.beat
          /\ BeatRate(monitor) > 0
          /\ IntervalMs(BeatRate(monitor)) >= MinBeatIntervalMs )
        => monitor'.nextBeatTime - monitor.nextBeatTime
               = IntervalMs(BeatRate(monitor)) ]_vars

(* ------------------------------------------------------------------ *)
(* Wenckebach conduction under the running engine                      *)
(* ------------------------------------------------------------------ *)
MaxAvbTime == 6400

\* the engine with a Wenckebach rhythm selected and applied while stopped
WenckebachMode(key) == SetupMode(key, DEFAULT_RESP_RATE)

InitWenckebach ==
    /\ normalBaseHR \in BaseHRs
    /\ currentRole \in Roles
    /\ \E key \in WenckebachRhythms : monitor = WenckebachMode(key)
    /\ chaotic = NewChaotic
    /\ pc = "idle"
    /\ frameDelta = 0
    /\ frameSteps = 0
    /\ lastOp = "constructor"
    /\ boundary = NoBoundary
    /\ opCount = 0
    /\ server = NewServer
    /\ sample = NoSample
    /\ timers = NoTimers
    /\ network = NoNetwork

AnimationFrameWenckebach == AnimationFrameOf(FrameDeltas, MaxAvbTime)

NextWenckebach ==
    \/ ActivateClick
    \/ AnimationFrameWenckebach
    \/ LoopStep
    \/ LoopEnd

SpecWenckebach == InitWenckebach /\ [][NextWenckebach]_vars

\* the atrial event the generator state stands at, counted from the start of
\* the run by the atrial schedule (the first one falls on the first step)
PIndex(m) ==
    (m.ecgState.lastPTime - StepMs)
        \div PInterval(m.currentParams.ecg.params) + 1

\* a logical step in which an atrial event happened
PEvent ==
    /\ monitor'.ecgState.initialized
    /\ \/ ~monitor.ecgState.initialized
       \/ monitor'.ecgState.lastPTime # monitor.ecgState.lastPTime

\* a logical step in which a ventricular event was generated
QrsEvent ==
    /\ monitor'.ecgState.initialized
    /\ monitor'.ecgState.lastQRSTime \notin {NegInfinity, JsonNull}
    /\ \/ ~monitor.ecgState.initialized
       \/ monitor'.ecgState.lastQRSTime # monitor.ecgState.lastQRSTime

\* the latest atrial event has had its ventricular event
AnsweredP(s) ==
    /\ s.lastQRSTime \notin {NegInfinity, JsonNull}
    /\ s.lastQRSTime > s.lastPTime

\* C15: with a drop-cycle of 4, the atrial events 4, 8, ... of a run are not
\* conducted (no ventricular event is scheduled or generated for them) and
\* every other atrial event is conducted: it gets exactly its own
\* ventricular event before the next atrial event.
C15_OneInFourDropped ==
    [][ /\ PEvent =>
            LET s == monitor'.ecgState
                k == PIndex(monitor')
            IN  /\ (k % WenckebachCycle = 0) <=> s.droppedLast
                /\ (k % WenckebachCycle # 0) <=>
                       (/\ s.nextQRSTime \notin {Infinity, JsonNull}
                        /\ s.nextQRSTime > s.lastPTime)
                /\ (k > 1) =>
                       (((k - 1) % WenckebachCycle # 0)
                            <=> AnsweredP(monitor.ecgState))
        /\ QrsEvent =>
            /\ AnsweredP(monitor'.ecgState)
            /\ PIndex(monitor') % WenckebachCycle # 0
            /\ monitor.ecgState.initialized
            /\ ~AnsweredP(monitor.ecgState)
      ]_vars

\* the second dropped atrial event of a run has happened
C15_Witness ==
    /\ monitor.ecgState.initialized
    /\ PIndex(monitor) = 2 * WenckebachCycle
    /\ monitor.ecgState.droppedLast
    /\ ~AnsweredP(monitor.ecgState)
    /\ monitor.rhythmTime >= monitor.ecgState.lastPTime + 500

\* C16: the delay of a generated ventricular event is the time from its
\* atrial event to it; within a cycle it exceeds the delay of the previous
\* conducted beat by exactly the increment, and the first conducted beat of a
\* run and the first one after a dropped beat use the starting delay.
C16_DelayGrowsThenResets ==
    [][ QrsEvent =>
          LET s == monitor'.ecgState
              params == monitor'.currentParams.ecg.params
              start == ParamOr(params, "prIntervalStart",
                               DEFAULT_PR_INTERVAL_START)
              inc == ParamOr(params, "prIncrement", DEFAULT_PR_INCREMENT)
              k == PIndex(monitor')
          IN  /\ s.lastConductedPR = s.lastQRSTime - s.lastPTime
              /\ IF k % WenckebachCycle = 1
                 THEN s.lastConductedPR = start
                 ELSE /\ s.lastConductedPR
                             = monitor.ecgState.lastConductedPR + inc
                      /\ s.lastConductedPR > monitor.ecgState.lastConductedPR
      ]_vars

\* the first conducted beat after the first drop has been generated with the
\* starting delay, the beat before the drop having had the longest delay
C16_Witness ==
    /\ monitor.ecgState.initialized
    /\ PIndex(monitor) = WenckebachCycle + 1
    /\ AnsweredP(monitor.ecgState)
    /\ monitor.ecgState.lastConductedPR = DEFAULT_PR_INTERVAL_START
    /\ monitor.ecgState.currentPR
           = DEFAULT_PR_INTERVAL_START + DEFAULT_PR_INCREMENT

(* ------------------------------------------------------------------ *)
(* Deferred channels whose flag and snapshot disagree                  *)
(* ------------------------------------------------------------------ *)
\* isXUpdatePending and pendingXParams of one deferred channel disagree
Etco2Inconsistent(m) ==
    m.isEtco2UpdatePending # (m.pendingEtco2Params # Null)
Spo2Inconsistent(m) == m.isSpo2UpdatePending # (m.pendingSpo2Params # Null)
AbpInconsistent(m) == m.isAbpUpdatePending # (m.pendingAbpParams # Null)

PendingInconsistent(m) ==
    Etco2Inconsistent(m) \/ Spo2Inconsistent(m) \/ AbpInconsistent(m)

\* every handler writes flag and snapshot together: no reachable state of
\* the engine has a channel whose flag and snapshot disagree
C17_PendingConsistent == ~PendingInconsistent(monitor)

\* the running engine with one channel's pair of fields disagreeing: the
\* flag alone, or a snapshot of a changed shape alone
PendingFaults ==
    {"etco2_flag", "etco2_snapshot", "spo2_flag", "spo2_snapshot",
     "abp_flag", "abp_snapshot"}

FaultyPending(m, fault) ==
    LET t == m.targetParams
    IN  CASE fault = "etco2_flag" -> [m EXCEPT !.isEtco2UpdatePending = TRUE]
          [] fault = "etco2_snapshot" ->
                [m EXCEPT !.pendingEtco2Params =
                              [t.etco2 EXCEPT !.etco2Shape = "bronchospasm"]]
          [] fault = "spo2_flag" -> [m EXCEPT !.isSpo2UpdatePending = TRUE]
          [] fault = "spo2_snapshot" ->
                [m EXCEPT !.pendingSpo2Params =
                              [t.spo2 EXCEPT !.shape = "low_perfusion"]]
          [] fault = "abp_flag" -> [m EXCEPT !.isAbpUpdatePending = TRUE]
          [] OTHER ->
                [m EXCEPT !.pendingAbpParams =
                              [t.abp EXCEPT !.shape = "hyperdynamic"]]

InitFaultyPending ==
    /\ normalBaseHR \in BaseHRs
    /\ currentRole \in Roles
    /\ \E rr \in InitRespRates, fault \in PendingFaults :
          monitor = FaultyPending(startAnimation(SetupMode("normal", rr)),
                                  fault)
    /\ chaotic = NewChaotic
    /\ pc = "idle"
    /\ frameDelta = 0
    /\ frameSteps = 0
    /\ lastOp = "startAnimation"
    /\ boundary = NoBoundary
    /\ opCount = 0
    /\ server = NewServer
    /\ sample = NoSample
    /\ timers = NoTimers
    /\ network = NoNetwork

NextFaultyPending ==
    \/ AnimationFrame
    \/ LoopStep
    \/ LoopEnd

SpecFaultyPending == InitFaultyPending /\ [][NextFaultyPending]_vars

C17_FaultStays ==
    [][ /\ monitor'.isEtco2UpdatePending = monitor.isEtco2UpdatePending
        /\ monitor'.pendingEtco2Params = monitor.pendingEtco2Params
        /\ monitor'.isSpo2UpdatePending = monitor.isSpo2UpdatePending
        /\ monitor'.pendingSpo2Params = monitor.pendingSpo2Params
        /\ monitor'.isAbpUpdatePending = monitor.isAbpUpdatePending
        /\ monitor'.pendingAbpParams = monitor.pendingAbpParams
        /\ monitor'.currentParams.etco2.etco2Shape
               = monitor.currentParams.etco2.etco2Shape
        /\ monitor'.currentParams.spo2.shape = monitor.currentParams.spo2.shape
        /\ monitor'.currentParams.abp.shape = monitor.currentParams.abp.shape
      ]_vars

(* ------------------------------------------------------------------ *)
(* Interpolation target against requested target                       *)
(* ------------------------------------------------------------------ *)
\* the numeric fields of a parameter snapshot
NumericFields(p) ==
    <<p.ecg.hr, p.spo2.value, p.abp.sys, p.abp.dia, p.etco2.valueKpa,
      p.etco2.rr, p.temp.valueC>>

\* C18: in every state each numeric field of the interpolation target (heart
\* rate, saturation, systolic, diastolic, ETCO2 value, respiratory rate,
\* temperature) equals the same field of the requested target.
C18_InterpolationTargetIsTarget ==
    NumericFields(monitor.interpolationTargetParams)
        = NumericFields(monitor.targetParams)

\* the two agree when initiateParameterChange returns
C18_EqualAfterChange ==
    [][ lastOp' \in {"_handleUpdateVitalsClick", "handleRemoteParamUpdate"}
          => NumericFields(monitor'.interpolationTargetParams)
                 = NumericFields(monitor'.targetParams) ]_vars

(* ------------------------------------------------------------------ *)
(* Rendering callbacks whose elapsed time is no multiple of the step   *)
(* ------------------------------------------------------------------ *)
OddFrameDeltas == {7, 16, 25}
MaxRemainderTime == 160

InitRemainder ==
    /\ normalBaseHR \in BaseHRs
    /\ currentRole \in Roles
    /\ \E rr \in InitRespRates : monitor = SetupMode("normal", rr)
    /\ chaotic = NewChaotic
    /\ pc = "idle"
    /\ frameDelta = 0
    /\ frameSteps = 0
    /\ lastOp = "constructor"
    /\ boundary = NoBoundary
    /\ opCount = 0
    /\ server = NewServer
    /\ sample = NoSample
    /\ timers = NoTimers
    /\ network = NoNetwork

AnimationFrameOdd == AnimationFrameOf(OddFrameDeltas, MaxRemainderTime)

NextRemainder ==
    \/ ActivateClick
    \/ AnimationFrameOdd
    \/ LoopStep
    \/ LoopEnd

SpecRemainder == InitRemainder /\ [][NextRemainder]_vars

\* C19: a rendering callback adds exactly the elapsed time to the remainder
\* the previous callback left (which is at least 0 and less than one step);
\* each logical step takes exactly one step out of the accumulator and
\* advances the rhythm time by it; the callback ends with a remainder of at
\* least 0 and less than one step, which it keeps, and has then executed the
\* whole steps contained in previous remainder plus elapsed time.
C19_RemainderCarried ==
    [][ LET acc == monitor.simulationTimeAccumulator
            acc2 == monitor'.simulationTimeAccumulator
        IN  /\ (pc = "idle" /\ pc' = "loop")
                  => /\ 0 <= acc /\ acc < StepMs
                     /\ acc2 = acc + frameDelta'
                     /\ frameSteps' = 0
                     /\ monitor'.rhythmTime = monitor.rhythmTime
            /\ (pc = "loop" /\ pc' = "loop")
                  => /\ acc2 = acc - StepMs
                     /\ monitor'.rhythmTime = monitor.rhythmTime + StepMs
                     /\ frameSteps' = frameSteps + 1
                     /\ (acc + frameSteps * StepMs) - frameDelta \in
                            0..(StepMs - 1)
            /\ (pc = "loop" /\ pc' = "idle")
                  => /\ 0 <= acc2 /\ acc2 < StepMs
                     /\ acc2 = acc
                     /\ monitor'.rhythmTime = monitor.rhythmTime
                     /\ LET previous == acc2 + frameSteps * StepMs
                                            - frameDelta
                        IN  /\ previous \in 0..(StepMs - 1)
                            /\ frameSteps' = (previous + frameDelta) \div StepMs
            /\ (pc = "idle" /\ pc' = "idle" /\ monitor'.animationRunning
                    /\ monitor.animationRunning)
                  => acc2 = acc
      ]_vars

\* a callback of 16 ms that found a remainder of 9 ms has run two steps and
\* left 5 ms
C19_Witness ==
    /\ Running
    /\ lastOp = "interpolation"
    /\ frameDelta = 16
    /\ frameSteps = 2
    /\ monitor.simulationTimeAccumulator = 5

(* ------------------------------------------------------------------ *)
(* server.js: handlers of the relay                                    *)
(* ------------------------------------------------------------------ *)
\* cleanupClientConnection that clears ws.sessionId and ws.role and leaves
\* the session's client set alone
cleanupClientConnection_KeepInSet(sv, c) ==
    LET sid == sv.ws[c].sessionId
    IN  IF sid # NoSession /\ sv.sessions[sid].exists
        THEN [sv EXCEPT !.ws[c].sessionId = NoSession,
                        !.ws[c].role = NoRole]
        ELSE sv

\* cleanupClientConnection(ws)
cleanupClientConnection(sv, c) ==
    LET sid == sv.ws[c].sessionId
    IN  IF sid # NoSession /\ sv.sessions[sid].exists
        THEN [sv EXCEPT !.sessions[sid].clients = @ \ {c},
                        !.ws[c].sessionId = NoSession,
                        !.ws[c].role = NoRole]
        ELSE sv

\* sendMessage(ws, message): a socket that is not open is cleaned up
sendMessage(sv, c) ==
    IF sv.ws[c].readyState = "OPEN" THEN sv
    ELSE cleanupClientConnection(sv, c)

\* the clients a broadcast is sent to with no role filter
Recipients_NoRoleFilter(sv, sid, senderWs, targetRole) ==
    { client \in sv.sessions[sid].clients :
          /\ client # senderWs
          /\ sv.ws[client].readyState = "OPEN" }

\* shouldSend of broadcastToSession
Recipients(sv, sid, senderWs, targetRole) ==
    { client \in sv.sessions[sid].clients :
          /\ client # senderWs
          /\ sv.ws[client].readyState = "OPEN"
          /\ (targetRole = NoRole \/ sv.ws[client].role = targetRole) }

\* broadcastToSession(sessionId, message, senderWs, targetRole)
broadcastToSession(sv, sid, type, senderWs, targetRole) ==
    IF ~sv.sessions[sid].exists THEN sv
    ELSE [sv EXCEPT !.delivered =
                        [type |-> type, sender |-> senderWs,
                         to |-> Recipients(sv, sid, senderWs, targetRole)]]

\* case 'create_session'; id is what generateSessionId returned
OnCreateSession(sv, c, id, adminToken) ==
    LET sv1 == cleanupClientConnection(sv, c)
    IN  IF id = NoSession THEN sv1
        ELSE [sv1 EXCEPT
                !.sessions[id] =
                    [exists |-> TRUE, clients |-> {c},
                     adminToken |-> adminToken],
                !.ws[c].sessionId = id,
                !.ws[c].role = NoRole]

\* case 'join_session'
OnJoinSession(sv, c, sid) ==
    IF sid \notin SessionIds \/ ~sv.sessions[sid].exists THEN sv
    ELSE LET sv1 == cleanupClientConnection(sv, c)
         IN  [sv1 EXCEPT !.sessions[sid].clients = @ \cup {c},
                         !.ws[c].sessionId = sid,
                         !.ws[c].role = NoRole]

\* case 'set_role'
OnSetRole(sv, c, role) ==
    IF sv.ws[c].sessionId = NoSession THEN sv
    ELSE IF role \in ClientRoles THEN [sv EXCEPT !.ws[c].role = role]
    ELSE sv

\* sendMessage(ws, { type: 'error', ... }): the reply goes to the sender
ErrorReply(sv, c) ==
    IF sv.ws[c].readyState = "OPEN"
    THEN [sv EXCEPT !.delivered =
                        [type |-> "error", sender |-> c, to |-> {c}]]
    ELSE cleanupClientConnection(sv, c)

\* the command cases with no test of ws.role
OnCommand_NoRoleCheck(sv, c, type, valid) ==
    IF sv.ws[c].sessionId = NoSession THEN ErrorReply(sv, c)
    ELSE IF ~valid THEN ErrorReply(sv, c)
    ELSE broadcastToSession(sv, sv.ws[c].sessionId, type, c, "monitor")

\* cases 'param_update', 'activate_sim', 'deactivate_sim', 'shock',
\* 'nibp_trigger', 'sound_state_update'; valid is the payload test
OnCommand(sv, c, type, valid) ==
    IF sv.ws[c].sessionId = NoSession THEN ErrorReply(sv, c)
    ELSE IF sv.ws[c].role # "controller" THEN ErrorReply(sv, c)
    ELSE IF ~valid THEN ErrorReply(sv, c)
    ELSE broadcastToSession(sv, sv.ws[c].sessionId, type, c, "monitor")

\* target.clients.forEach of 'end_session': notify, then detach
RECURSIVE EndSessionNotify(_, _)
EndSessionNotify(sv, rest) ==
    IF rest = {} THEN sv
    ELSE LET client == CHOOSE x \in rest : TRUE
             sv1 == sendMessage(sv, client)
         IN  EndSessionNotify([sv1 EXCEPT !.ws[client].sessionId = NoSession,
                                          !.ws[client].role = NoRole],
                              rest \ {client})

\* 'end_session' carried out whatever token the message has
OnEndSession_AnyToken(sv, c, sid, providedToken) ==
    IF sid \notin SessionIds \/ ~sv.sessions[sid].exists
    THEN ErrorReply(sv, c)
    ELSE [EndSessionNotify(sv, sv.sessions[sid].clients) EXCEPT
             !.sessions[sid] = NoSessionObj]

\* case 'end_session'; providedToken is parsedMessage.adminToken, NoToken
\* when the message has none
OnEndSession(sv, c, sid, providedToken) ==
    IF sid \notin SessionIds \/ ~sv.sessions[sid].exists
    THEN ErrorReply(sv, c)
    ELSE IF providedToken = NoToken
            \/ providedToken # sv.sessions[sid].adminToken
    THEN ErrorReply(sv, c)
    ELSE [EndSessionNotify(sv, sv.sessions[sid].clients) EXCEPT
             !.sessions[sid] = NoSessionObj]

\* JSON payloads a client can put into a message
PayloadValid == BOOLEAN
JoinIds == SessionIds \cup {"zzzz"}
RequestedRoles == ClientRoles \cup {"admin"}
\* adminToken of an end_session message: a token, or none
RequestTokens == AdminTokens \cup {NoToken}

\* results of generateSessionId: an id not in use, or null after too many
\* collisions
GeneratedIds(sv) ==
    { id \in SessionIds : ~sv.sessions[id].exists } \cup {NoSession}

\* a handler of the server has run
Serve(sv) ==
    /\ server' = sv
    /\ server' # server
    /\ UNCHANGED <<engineVars, sample, timers, network>>

Reset(sv) == [sv EXCEPT !.delivered = NoDelivery]

\* ws.on('message') up to the switch: ws.isAlive = true
Received(sv, c) ==
    [Reset(sv) EXCEPT !.ws[c].isAlive = TRUE, !.ws[c].silentTicks = 0]

Connect ==
    \E c \in Clients :
        /\ server.ws[c].readyState = "NONE"
        /\ Serve([Reset(server) EXCEPT !.ws[c] = NewConnection])

CreateSession ==
    \E c \in Clients :
        /\ server.ws[c].readyState = "OPEN"
        /\ \E id \in GeneratedIds(cleanupClientConnection(server, c)),
                 adminToken \in AdminTokens :
              Serve(OnCreateSession(Received(server, c), c, id, adminToken))

JoinSession ==
    \E c \in Clients, sid \in JoinIds :
        /\ server.ws[c].readyState = "OPEN"
        /\ Serve(OnJoinSession(Received(server, c), c, sid))

SetRole ==
    \E c \in Clients, role \in RequestedRoles :
        /\ server.ws[c].readyState = "OPEN"
        /\ Serve(OnSetRole(Received(server, c), c, role))

Command ==
    \E c \in Clients, type \in CommandTypes, valid \in PayloadValid :
        /\ server.ws[c].readyState = "OPEN"
        /\ Serve(OnCommand(Received(server, c), c, type, valid))

EndSession ==
    \E c \in Clients, sid \in JoinIds, providedToken \in RequestTokens :
        /\ server.ws[c].readyState = "OPEN"
        /\ Serve(OnEndSession(Received(server, c), c, sid, providedToken))

\* the socket closes; its close handler has not run yet
ConnectionLost ==
    \E c \in Clients :
        /\ server.ws[c].readyState = "OPEN"
        /\ Serve([Reset(server) EXCEPT !.ws[c].readyState = "CLOSED"])

\* ws.on('close')
OnClose ==
    \E c \in Clients :
        /\ server.ws[c].readyState = "CLOSED"
        /\ Serve([cleanupClientConnection(Reset(server), c) EXCEPT
                     !.ws[c] = Unconnected])

\* ws.on('error'), and the keep-alive tick finding a socket that has not
\* answered the last ping: clean up, then terminate
Terminate ==
    \E c \in Clients :
        /\ server.ws[c].readyState = "OPEN"
        /\ Serve([cleanupClientConnection(Reset(server), c) EXCEPT
                     !.ws[c].readyState = "CLOSED"])

\* startSessionCleanup: an empty session past its TTL is deleted
SessionCleanup ==
    \E sid \in SessionIds :
        /\ server.sessions[sid].exists
        /\ server.sessions[sid].clients = {}
        /\ Serve([Reset(server) EXCEPT !.sessions[sid] = NoSessionObj])

\* the engine of this process is left as constructed
InitRelay ==
    /\ normalBaseHR = 75
    /\ currentRole = "controller"
    /\ monitor = NewMonitor
    /\ chaotic = NewChaotic
    /\ pc = "idle"
    /\ frameDelta = 0
    /\ frameSteps = 0
    /\ lastOp = "constructor"
    /\ boundary = NoBoundary
    /\ opCount = 0
    /\ server = NewServer
    /\ sample = NoSample
    /\ timers = NoTimers
    /\ network = NoNetwork

NextRelay ==
    \/ Connect
    \/ CreateSession
    \/ JoinSession
    \/ SetRole
    \/ Command
    \/ EndSession
    \/ ConnectionLost
    \/ OnClose
    \/ Terminate
    \/ SessionCleanup

SpecRelay == InitRelay /\ [][NextRelay]_vars

\* the server's two records of membership agree: a socket is in the client
\* set of exactly the session its sessionId names
MembershipConsistent ==
    \A c \in Clients, sid \in SessionIds :
        (c \in server.sessions[sid].clients)
            <=> (server.sessions[sid].exists /\ server.ws[c].sessionId = sid)

\* C20: a command the server has just relayed was sent by a controller that
\* is in a session, and went to exactly the open sockets of that session
\* with the monitor role: to each of them, to no socket of another session or
\* of none, to no socket with another role or none, and not to the sender.
C20_RelayToSessionMonitors ==
    server.delivered.type \in CommandTypes =>
        LET d == server.delivered
            sid == server.ws[d.sender].sessionId
        IN  /\ sid # NoSession
            /\ server.ws[d.sender].role = "controller"
            /\ d.sender \notin d.to
            /\ d.to = { c \in Clients :
                          /\ server.ws[c].readyState = "OPEN"
                          /\ server.ws[c].sessionId = sid
                          /\ server.ws[c].role = "monitor" }

\* a shock relayed to the one monitor of the sender's session while an open
\* monitor of another session got nothing
C20_Witness ==
    /\ server.delivered.type = "shock"
    /\ server.delivered.sender = "ws1"
    /\ server.delivered.to = {"ws2"}
    /\ server.ws["ws3"].readyState = "OPEN"
    /\ server.ws["ws3"].role = "monitor"
    /\ server.ws["ws3"].sessionId \in SessionIds
    /\ server.ws["ws3"].sessionId # server.ws["ws1"].sessionId

(* ------------------------------------------------------------------ *)
(* The waveform functions on their own: a call is set up with its      *)
(* arguments and then returns its value                                *)
(* ------------------------------------------------------------------ *)
AbpSystolics == {0, 500, 60000, 120000}
AbpDiastolics == {0, 500, 80000}
AbpShapeTypes == {"normal", "damped", "hyperdynamic", "vasoconstricted"}
AbpBeatDurations == {0, 800}
AbpTimes == { 40 * k : k \in 0..20 }
Etco2Amplitudes == {0, 5000}
Etco2ShapeTypes == {"normal", "bronchospasm", "leak_obstruction", "cpr_low_flow",
                "disconnect"}
Etco2BreathDurations == {2000, 3000, 10000}
Etco2Times == { 250 * k : k \in 0..48 }

AbpCalls ==
    { [fn |-> "abp", t |-> t, duration |-> d, a |-> sys, b |-> dia,
       shapeType |-> shape, value |-> 0, returned |-> FALSE] :
         t \in AbpTimes, d \in AbpBeatDurations, sys \in AbpSystolics,
         dia \in AbpDiastolics, shape \in AbpShapeTypes }

Etco2Calls ==
    { [fn |-> "etco2", t |-> t, duration |-> d, a |-> v, b |-> 0,
       shapeType |-> shape, value |-> 0, returned |-> FALSE] :
         t \in Etco2Times, d \in Etco2BreathDurations, v \in Etco2Amplitudes,
         shape \in Etco2ShapeTypes }

InitWaveform ==
    /\ normalBaseHR = 75
    /\ currentRole = "controller"
    /\ monitor = NewMonitor
    /\ chaotic = NewChaotic
    /\ pc = "idle"
    /\ frameDelta = 0
    /\ frameSteps = 0
    /\ lastOp = "constructor"
    /\ boundary = NoBoundary
    /\ opCount = 0
    /\ server = NewServer
    /\ sample \in AbpCalls \cup Etco2Calls
    /\ timers = NoTimers
    /\ network = NoNetwork

GenerateAbp ==
    /\ sample.fn = "abp"
    /\ ~sample.returned
    /\ sample' = [sample EXCEPT !.returned = TRUE, !.value =
                     generateAbpWaveformShape(sample.t, sample.duration,
                                              sample.a, sample.b,
                                              sample.shapeType)]
    /\ UNCHANGED <<engineVars, server, timers, network>>

GenerateEtco2 ==
    /\ sample.fn = "etco2"
    /\ ~sample.returned
    /\ sample' = [sample EXCEPT !.returned = TRUE, !.value =
                     generateEtco2WaveformShape(sample.t, sample.duration,
                                                sample.a, sample.shapeType)]
    /\ UNCHANGED <<engineVars, server, timers, network>>

NextWaveform ==
    \/ GenerateAbp
    \/ GenerateEtco2

SpecWaveform == InitWaveform /\ [][NextWaveform]_vars

\* a call of the named function that has returned
Returned(fn) == sample.fn = fn /\ sample.returned

\* C21: every ABP point lies in [0, systolic + 15] for the systolic pressure
\* passed in, and is the diastolic pressure when the systolic pressure is
\* not above the diastolic pressure.
C21_ClampedToSystolic ==
    Returned("abp") =>
        /\ 0 <= sample.value
        /\ sample.value <= sample.a + 15000
        /\ (sample.a <= sample.b => sample.value = Max(0, sample.b))

\* C21 (as coded): every ABP point lies in [0, safeSys + 15], where safeSys
\* is the larger of the systolic pressure and the diastolic pressure plus 1;
\* it is 0 when both pressures are below 1, and with a systolic pressure
\* above a non-negative diastolic pressure it lies in [0, systolic + 15].
C21_ClampedToSafeSystolic ==
    Returned("abp") =>
        LET safeDia == Max(0, sample.b)
            safeSys == Max(safeDia + 1000, sample.a)
        IN  /\ 0 <= sample.value
            /\ sample.value <= safeSys + 15000
            /\ (sample.a < 1000 /\ sample.b < 1000 => sample.value = 0)
            /\ (sample.a > sample.b => sample.value <= sample.a + 15000)

\* systolic 60 below diastolic 80: at the end of the upstroke the point is
\* above systolic + 15
C21_AboveSystolic ==
    /\ Returned("abp")
    /\ sample.a = 60000 /\ sample.b = 80000
    /\ sample.value > sample.a + 15000

\* C22: at 6 breaths per minute (breath of 10 s) every point of the
\* capnogram from the maximum active duration of 3 s to the end of the
\* breath is 0.
C22_IdleAfterActiveSpan ==
    (/\ Returned("etco2")
     /\ sample.duration = 10000
     /\ sample.t % sample.duration >= ETCO2_MAX_ACTIVE_SHAPE_DURATION)
        => sample.value = 0

\* in the middle of a 10 s breath of 5 kPa the point is 0 although the shape
\* is not the flat one
C22_Witness ==
    /\ Returned("etco2")
    /\ sample.duration = 10000
    /\ sample.t = 5000
    /\ sample.a = 5000
    /\ sample.shapeType = "normal"
    /\ sample.value = 0

\* the same breath is active before the 3 s: its plateau is at 5 kPa
C22_ActiveBefore ==
    /\ Returned("etco2")
    /\ sample.duration = 10000
    /\ sample.t = 2000
    /\ sample.a = 5000
    /\ sample.shapeType = "normal"
    /\ sample.value >= 5000

(* ------------------------------------------------------------------ *)
(* Rhythm changes applied while running                                *)
(* ------------------------------------------------------------------ *)
\* an Update click or a received update that finds the engine running with
\* a rhythm in `current` other than the requested one
RhythmChangeApplied ==
    /\ Running
    /\ lastOp' \in {"_handleUpdateVitalsClick", "handleRemoteParamUpdate"}
    /\ monitor'.targetParams.ecg.rhythm # Current.ecg.rhythm

\* the rhythm key and the generator parameters in `current` are the
\* requested ones, the generator state is empty
RhythmReplaced ==
    /\ monitor'.currentParams.ecg.rhythm = monitor'.targetParams.ecg.rhythm
    /\ monitor'.currentParams.ecg.params
           = RHYTHM_PARAMS(monitor'.targetParams.ecg.rhythm)
    /\ monitor'.ecgState = EmptyEcgState

\* the beat and the compression schedule restart at the rhythm time
BeatScheduleReset ==
    /\ monitor'.rhythmTime = monitor.rhythmTime
    /\ monitor'.lastBeatTime = NegInfinity
    /\ monitor'.nextBeatTime > monitor.rhythmTime
    /\ monitor'.lastCompressionTime = NegInfinity
    /\ monitor'.nextCompressionTime = monitor.rhythmTime

\* the breath schedule restarts at the respiratory time: the next breath is
\* due now or one breath interval from now, and no breath from before the
\* change is remembered
BreathScheduleReset ==
    /\ monitor'.respiratoryTime = monitor.respiratoryTime
    /\ monitor'.lastBreathTime \in {NegInfinity, monitor.respiratoryTime}
    /\ monitor'.nextBreathTime
           \in {monitor.respiratoryTime,
                TAdd(monitor.respiratoryTime,
                     RawBreathInterval(monitor'.currentParams.etco2.rr))}

\* C23: a rhythm change applied while running (Update click, received
\* update) replaces the rhythm key and the generator parameters in `current`
\* in the same operation and resets the beat, the compression and the breath
\* schedule relative to the current simulation time.
C23_AllSchedulesReset ==
    [][ RhythmChangeApplied
          => (RhythmReplaced /\ BeatScheduleReset /\ BreathScheduleReset) ]_vars

\* C23 (as coded): the rhythm is replaced and the beat and compression
\* schedules are reset in the same operation; the breath schedule is reset
\* when the new rhythm is pulseless.
C23_BeatScheduleReset ==
    [][ RhythmChangeApplied
          => /\ RhythmReplaced
             /\ BeatScheduleReset
             /\ (monitor'.currentParams.ecg.params.generatorType
                     \in {"flat", "chaotic"} => BreathScheduleReset) ]_vars


\* a run that switches between normal sinus rhythm, Wenckebach block and
\* asystole, with activate / deactivate and shocks
MaxSwitchTime == 1200
SwitchRhythms == {"normal", "avb2_mobitz1_75", "asystole"}

InitRhythmSwitch ==
    /\ normalBaseHR = 75
    /\ currentRole = "controller"
    /\ \E key \in {"normal", "avb2_mobitz1_75"} :
           monitor = SetupMode(key, DEFAULT_RESP_RATE)
    /\ chaotic = NewChaotic
    /\ pc = "idle"
    /\ frameDelta = 0
    /\ frameSteps = 0
    /\ lastOp = "constructor"
    /\ boundary = NoBoundary
    /\ opCount = 0
    /\ server = NewServer
    /\ sample = NoSample
    /\ timers = NoTimers
    /\ network = NoNetwork

SelectRhythm ==
    \E key \in SwitchRhythms :
        Operate("_handleEcgRhythmChange", _handleEcgRhythmChange(monitor, key))

AnimationFrameSwitch == AnimationFrameOf(FrameDeltas, MaxSwitchTime)

NextRhythmSwitch ==
    \/ SelectRhythm
    \/ UpdateVitalsClick
    \/ ActivateClick
    \/ EcgShock
    \/ AnimationFrameSwitch
    \/ LoopStep
    \/ LoopEnd

SpecRhythmSwitch == InitRhythmSwitch /\ [][NextRhythmSwitch]_vars

\* a change from normal sinus rhythm to Wenckebach block applied 0.2 s or
\* more into a run: the breath schedule still holds the breath of the start
C23_BreathScheduleKept ==
    /\ Running
    /\ lastOp = "_handleUpdateVitalsClick"
    /\ Current.ecg.rhythm = "avb2_mobitz1_75"
    /\ monitor.lastBeatTime = NegInfinity
    /\ monitor.respiratoryTime >= 200
    /\ monitor.lastBreathTime = 0
    /\ monitor.nextBreathTime = RawBreathInterval(DEFAULT_RESP_RATE)

(* ------------------------------------------------------------------ *)
(* What a shock leaves behind                                          *)
(* ------------------------------------------------------------------ *)
ShockExecuted == Running /\ lastOp' = "_executeShock"

\* SpO2, ABP and ETCO2 a rhythm implies after a shock: the no-output values
\* for a pulseless rhythm, the perfusing defaults otherwise
PostShockVitals(key) ==
    LET params == RHYTHM_PARAMS(key)
    IN  IF params.isPEA \/ params.isChaotic \/ params.isFlat
        THEN [spo2 |-> <<0, "no_signal">>, abp |-> <<0, 0, "damped">>,
              etco2 |-> <<0, 0, "disconnect">>]
        ELSE [spo2 |-> <<98000, "normal">>,
              abp |-> <<120000, 80000, "normal">>,
              etco2 |-> <<DEFAULT_ETCO2_KPA, DEFAULT_RESP_RATE, "normal">>]

VitalsOf(p) ==
    [spo2 |-> <<p.spo2.value, p.spo2.shape>>,
     abp |-> <<p.abp.sys, p.abp.dia, p.abp.shape>>,
     etco2 |-> <<p.etco2.valueKpa, p.etco2.rr, p.etco2.etco2Shape>>]

NoPending(m) ==
    /\ ~m.isEtco2UpdatePending /\ m.pendingEtco2Params = Null
    /\ ~m.isSpo2UpdatePending /\ m.pendingSpo2Params = Null
    /\ ~m.isAbpUpdatePending /\ m.pendingAbpParams = Null

ShockBeatReset ==
    /\ monitor'.rhythmTime = monitor.rhythmTime
    /\ monitor'.lastBeatTime = NegInfinity
    /\ monitor'.nextBeatTime > monitor.rhythmTime

ShockBreathReset ==
    /\ monitor'.respiratoryTime = monitor.respiratoryTime
    /\ monitor'.lastBreathTime = monitor.respiratoryTime
    /\ monitor'.nextBreathTime
           = TAdd(monitor.respiratoryTime,
                  RawBreathInterval(monitor'.currentParams.etco2.rr))

ShockCompressionReset ==
    /\ monitor'.lastCompressionTime = NegInfinity
    /\ monitor'.nextCompressionTime = monitor.rhythmTime

ShockReconciled ==
    LET implied == PostShockVitals(monitor'.currentParams.ecg.rhythm)
    IN  /\ VitalsOf(monitor'.targetParams) = implied
        /\ VitalsOf(monitor'.interpolationTargetParams) = implied
        /\ NoPending(monitor')

\* C24: a shock executed while running resets the beat, the breath and the
\* compression schedule, leaves requestedTarget and interpolationTarget of
\* SpO2, ABP and ETCO2 at the values the post-shock rhythm implies, and
\* leaves no pending flag or snapshot set.
C24_ShockResetsAndReconciles ==
    [][ ShockExecuted
          => /\ ShockBeatReset
             /\ ShockBreathReset
             /\ ShockCompressionReset
             /\ ShockReconciled ]_vars

\* C24 (as coded): every shock resets the beat schedule; a shock that is
\* not aborted also resets the breath schedule, reconciles the three
\* channels and clears the pending updates, and an aborted one (unknown
\* rhythm key) leaves the parameters, the pending updates and the breath
\* schedule as they were.  The compression schedule is never touched.
C24_ShockResetsBeatAndBreath ==
    [][ ShockExecuted
          => /\ ShockBeatReset
             /\ monitor'.lastCompressionTime = monitor.lastCompressionTime
             /\ monitor'.nextCompressionTime = monitor.nextCompressionTime
             /\ \/ ShockBreathReset /\ ShockReconciled
                \/ /\ monitor'.targetParams = monitor.targetParams
                   /\ monitor'.interpolationTargetParams
                          = monitor.interpolationTargetParams
                   /\ monitor'.currentParams = monitor.currentParams
                   /\ monitor'.isEtco2UpdatePending = monitor.isEtco2UpdatePending
                   /\ monitor'.pendingEtco2Params = monitor.pendingEtco2Params
                   /\ monitor'.lastBreathTime = monitor.lastBreathTime
                   /\ monitor'.nextBreathTime = monitor.nextBreathTime ]_vars

\* after a shock 0.2 s or more into the run the compression schedule is
\* still the one set at the start
C24_CompressionScheduleKept ==
    /\ Running
    /\ lastOp = "_executeShock"
    /\ NoPending(monitor)
    /\ monitor.rhythmTime >= 200
    /\ monitor.nextCompressionTime = 0

\* after an aborted shock an ETCO2 update deferred before it is still pending
C24_PendingSurvivesShock ==
    /\ Running
    /\ lastOp = "_executeShock"
    /\ monitor.isEtco2UpdatePending
    /\ monitor.pendingEtco2Params # Null

(* ------------------------------------------------------------------ *)
(* Parameter changes that leave the ECG alone                          *)
(* ------------------------------------------------------------------ *)
\* an Update click or a received update, applied while running, whose
\* rhythm and heart rate are the ones requested by the change before it
NonEcgChangeApplied ==
    /\ Running
    /\ lastOp' \in {"_handleUpdateVitalsClick", "handleRemoteParamUpdate"}
    /\ monitor'.targetParams.ecg.rhythm = Current.ecg.rhythm
    /\ monitor'.targetParams.ecg.rhythm
           = monitor.interpolationTargetParams.ecg.rhythm
    /\ monitor'.targetParams.ecg.hr = monitor.interpolationTargetParams.ecg.hr

BeatScheduleKept ==
    /\ monitor'.lastBeatTime = monitor.lastBeatTime
    /\ monitor'.nextBeatTime = monitor.nextBeatTime

\* C25: a parameter change that alters neither the rhythm nor the requested
\* heart rate leaves the last and the next beat time as they were, also
\* while the heart rate in `current` is still on its way to the target.
C25_BeatScheduleUntouched ==
    [][ NonEcgChangeApplied => BeatScheduleKept ]_vars

\* C25 (as coded): such a change leaves the beat schedule as it was when the
\* heart rate in `current` has reached the requested rate or the rhythm is
\* pulseless; otherwise the beat schedule is reset.
C25_UntouchedWhenSettled ==
    [][ NonEcgChangeApplied
          => IF \/ Current.ecg.hr = monitor'.targetParams.ecg.hr
                \/ Current.ecg.params.generatorType \in {"flat", "chaotic"}
             THEN BeatScheduleKept
             ELSE /\ monitor'.lastBeatTime = NegInfinity
                  /\ monitor'.nextBeatTime > monitor.rhythmTime ]_vars

\* a received update that changes only the ABP shape has been applied while
\* the heart rate in `current` was on its way from 75 to 120: the beat
\* schedule is reset although the beat of the start was rendered
C25_ResetWhileInterpolating ==
    /\ Running
    /\ lastOp = "handleRemoteParamUpdate"
    /\ monitor.rhythmTime >= 200
    /\ Current.ecg.rhythm = "normal"
    /\ monitor.interpolationTargetParams.ecg.hr = 120000
    /\ Current.ecg.hr # 120000
    /\ monitor.interpolationTargetParams.abp.shape = "hyperdynamic"
    /\ monitor.lastBeatTime = NegInfinity

(* ------------------------------------------------------------------ *)
(* Heart rate of a pulseless rhythm                                    *)
(* ------------------------------------------------------------------ *)
\* isFlat, isChaotic, isPEA, isArtifact or vt_pulseless
ForcedRate(ecg) ==
    \/ ecg.params.isFlat \/ ecg.params.isChaotic \/ ecg.params.isPEA
    \/ ecg.rhythm = "vt_pulseless"

\* an Update click, a received update or the end of a rendering callback
ChangeOrCallback ==
    lastOp' \in {"_handleUpdateVitalsClick", "handleRemoteParamUpdate",
                 "interpolation"}

\* C26: after every parameter change and every rendering callback that
\* leaves a pulseless rhythm in `current`, the heart rate in `current` is 0.
C26_ForcedRateZero ==
    [][ (ChangeOrCallback /\ ForcedRate(monitor'.currentParams.ecg))
          => monitor'.currentParams.ecg.hr = 0 ]_vars

\* C26 (as coded): a change applied while running leaves a pulseless rhythm
\* with heart rate 0; a rendering callback sets the heart rate of a
\* pulseless rhythm to 0 when it is further than the snap threshold from the
\* interpolation target, and to the interpolation target otherwise.
C26_ZeroUnlessAtTarget ==
    [][ (ChangeOrCallback /\ ForcedRate(monitor'.currentParams.ecg))
          => IF lastOp' = "interpolation"
             THEN LET hr == Current.ecg.hr
                      target == monitor.interpolationTargetParams.ecg.hr
                  IN  monitor'.currentParams.ecg.hr
                          = IF Abs(target - hr) > SnapThreshold
                            THEN 0 ELSE target
             ELSE Running => monitor'.currentParams.ecg.hr = 0 ]_vars

\* received updates that name a rhythm and a heart rate of their own, to an
\* engine that is activated and deactivated remotely
MaxForcedTime == 400
ForcedRhythms == {"vfib", "normal"}
ForcedHeartRates == {0, 120000}

InitForcedRate ==
    /\ normalBaseHR = 75
    /\ currentRole = "monitor"
    /\ \E key \in ForcedRhythms : monitor = SetupMode(key, DEFAULT_RESP_RATE)
    /\ chaotic = NewChaotic
    /\ pc = "idle"
    /\ frameDelta = 0
    /\ frameSteps = 0
    /\ lastOp = "constructor"
    /\ boundary = NoBoundary
    /\ opCount = 0
    /\ server = NewServer
    /\ sample = NoSample
    /\ timers = NoTimers
    /\ network = NoNetwork

RemoteRhythmAndRate ==
    \E key \in ForcedRhythms, hr \in ForcedHeartRates :
        Operate("handleRemoteParamUpdate",
                handleRemoteParamUpdate(monitor,
                    [monitor.targetParams EXCEPT !.ecg.rhythm = key,
                                                 !.ecg.hr = hr]))

AnimationFrameForced == AnimationFrameOf(FrameDeltas, MaxForcedTime)

NextForcedRate ==
    \/ RemoteRhythmAndRate
    \/ RemoteActivate
    \/ RemoteDeactivate
    \/ AnimationFrameForced
    \/ LoopStep
    \/ LoopEnd

SpecForcedRate == InitForcedRate /\ [][NextForcedRate]_vars

\* ventricular fibrillation with heart rate 120 in `current` at the end of a
\* rendering callback
C26_RateHeldInFibrillation ==
    /\ Running
    /\ lastOp = "interpolation"
    /\ Current.ecg.rhythm = "vfib"
    /\ Current.ecg.hr = 120000

\* a received update asking for 120 in ventricular fibrillation, applied
\* while running, has left the heart rate in `current` and both targets at 0
C26_Witness ==
    /\ Running
    /\ lastOp = "handleRemoteParamUpdate"
    /\ monitor.rhythmTime >= 200
    /\ Current.ecg.rhythm = "vfib"
    /\ Current.ecg.hr = 0
    /\ monitor.interpolationTargetParams.ecg.hr = 0

(* ------------------------------------------------------------------ *)
(* AV block: which samples carry a QRS-T complex                       *)
(* ------------------------------------------------------------------ *)
\* (params.qrs_width ?? 0.08) + (params.t_width ?? 0.07) * 3
QrsDurationEstimate(params) ==
    ParamOr(params, "qrs_width", 80) + ParamOr(params, "t_width", 70) * 3

\* generateAVBlock adds generateQRST to its sample: a ventricular event is
\* generated by this call, or `state.lastQRSTime > -Infinity` and the time
\* since it is within the estimate; passed is the state the call received,
\* returned the one it returns
QrstRendered(currentTime, params, passed, returned) ==
    LET before == IF passed.initialized THEN passed.lastQRSTime
                  ELSE NegInfinity
        generateQRSNow == returned.lastQRSTime # before
        timeSinceLastQRS == currentTime - ToNumber(returned.lastQRSTime)
    IN  \/ generateQRSNow
        \/ /\ returned.lastQRSTime # NegInfinity
           /\ timeSinceLastQRS >= 0
           /\ timeSinceLastQRS < QrsDurationEstimate(params)

\* a logical step of an AV-block rhythm whose sample carries a QRS-T complex
QrstStep ==
    /\ lastOp' = "updateWaveforms"
    /\ monitor'.ecgState.initialized
    /\ QrstRendered(monitor'.rhythmTime, monitor'.currentParams.ecg.params,
                    JsonCopy(monitor.ecgState), monitor'.ecgState)

\* the latest ventricular event of the run: generated for the latest atrial
\* event at its time plus its conduction delay, and still being drawn
QrsOfConductedP(m) ==
    LET s == m.ecgState
    IN  /\ s.lastQRSTime \notin {NegInfinity, JsonNull}
        /\ s.lastPTime \notin {NegInfinity, JsonNull}
        /\ s.lastQRSTime = s.lastPTime + s.lastConductedPR
        /\ s.lastQRSTime <= m.rhythmTime
        /\ m.rhythmTime - s.lastQRSTime
               < QrsDurationEstimate(m.currentParams.ecg.params)

\* C27: in Mobitz I block every generated ventricular event is the one
\* scheduled for the latest atrial event, at that event's time plus its
\* conduction delay, and every sample that carries a QRS-T complex belongs
\* to such a ventricular event.
C27_QrstOnlyFromConductedP ==
    [][ /\ QrsEvent =>
              /\ monitor.ecgState.initialized
              /\ monitor'.ecgState.lastQRSTime = monitor.ecgState.nextQRSTime
              /\ monitor'.ecgState.lastQRSTime
                     = monitor'.ecgState.lastPTime
                           + monitor'.ecgState.lastConductedPR
              /\ monitor'.ecgState.nextQRSTime = Infinity
        /\ QrstStep => QrsOfConductedP(monitor')
      ]_vars

\* C27 (as coded): the ventricular events correspond to the conducted atrial
\* events, and a sample carries a QRS-T complex only for such an event or,
\* before the first ventricular event of a run, while the rhythm time is
\* below the QRS-T duration estimate.
C27_QrstFromConductedPOrRunStart ==
    [][ /\ QrsEvent =>
              /\ monitor.ecgState.initialized
              /\ monitor'.ecgState.lastQRSTime = monitor.ecgState.nextQRSTime
              /\ monitor'.ecgState.lastQRSTime
                     = monitor'.ecgState.lastPTime
                           + monitor'.ecgState.lastConductedPR
              /\ monitor'.ecgState.nextQRSTime = Infinity
        /\ QrstStep =>
              \/ QrsOfConductedP(monitor')
              \/ /\ monitor'.ecgState.lastQRSTime = JsonNull
                 /\ monitor'.rhythmTime
                        < QrsDurationEstimate(monitor'.currentParams.ecg.params)
      ]_vars

\* 0.1 s into a run in Wenckebach block, before its first ventricular event,
\* the sample carries a QRS-T complex
C27_QrstBeforeFirstQrs ==
    /\ Running
    /\ lastOp = "updateWaveforms"
    /\ monitor.rhythmTime = 100
    /\ monitor.ecgState.initialized
    /\ monitor.ecgState.lastQRSTime = JsonNull
    /\ QrstRendered(monitor.rhythmTime, Current.ecg.params,
                    monitor.ecgState, monitor.ecgState)

(* ------------------------------------------------------------------ *)
(* AV block: the generator state across rhythm changes, resets, shocks *)
(* ------------------------------------------------------------------ *)
\* a rhythm change applied while running, an activation, a deactivation or
\* an executed shock
StateDiscardingEvent ==
    \/ RhythmChangeApplied
    \/ lastOp' = "_handleActivateClick"
    \/ ShockExecuted

\* the first generator call in Wenckebach block after the state was emptied
FirstCallAfterDiscard ==
    /\ lastOp' = "updateWaveforms"
    /\ ~monitor.ecgState.initialized
    /\ monitor'.currentParams.ecg.params.generatorType = "avBlock"

MaxTimeouts == 2
MaxDelayTime == 400

InitDelayedUpdate ==
    /\ normalBaseHR = 75
    /\ currentRole = "controller"
    /\ monitor = SetupMode("normal", DEFAULT_RESP_RATE)
    /\ chaotic = NewChaotic
    /\ pc = "idle"
    /\ frameDelta = 0
    /\ frameSteps = 0
    /\ lastOp = "constructor"
    /\ boundary = NoBoundary
    /\ opCount = 0
    /\ server = NewServer
    /\ sample = NoSample
    /\ timers = NoTimers
    /\ network = NoNetwork

\* _handleUpdateVitalsClick with a delay selected, engine running: the
\* previous timeout is cleared and applyFn is scheduled
DelayedUpdateClick ==
    /\ pc = "idle"
    /\ monitor.animationRunning
    /\ timers.nextId <= MaxTimeouts
    /\ timers' = ScheduleUpdate(ClearUpdateTimeout(timers))
    /\ lastOp' = "_handleUpdateVitalsClick"
    /\ boundary' = NoBoundary
    /\ UNCHANGED <<network, monitor, sample, server, chaotic, currentRole,
                   normalBaseHR, pc, frameDelta, frameSteps, opCount>>

\* _handleUpdateVitalsClick with delay 0, or with the engine stopped
ImmediateUpdateClick ==
    /\ pc = "idle"
    /\ opCount < MaxOps
    /\ monitor' = _handleUpdateVitalsClick(monitor)
    /\ timers' = ClearUpdateTimeout(timers)
    /\ lastOp' = "_handleUpdateVitalsClick"
    /\ opCount' = opCount + 1
    /\ boundary' = NoBoundary
    /\ UNCHANGED <<network, sample, server, chaotic, currentRole, normalBaseHR, pc,
                   frameDelta, frameSteps>>

\* a timeout the browser still holds fires: applyFn sends the requested
\* parameters to the session (role controller) and applies them
ApplyFn ==
    /\ pc = "idle"
    /\ \E id \in timers.queue :
           timers' = [timers EXCEPT !.queue = @ \ {id},
                                    !.updateTimeoutId = NoTimeout]
    /\ monitor' = initiateParameterChange(monitor)
    /\ lastOp' = "applyFn"
    /\ boundary' = NoBoundary
    /\ UNCHANGED <<network, sample, server, chaotic, currentRole, normalBaseHR, pc,
                   frameDelta, frameSteps, opCount>>

AnimationFrameDelayed == AnimationFrameOf(FrameDeltas, MaxDelayTime)

NextDelayedUpdate ==
    \/ HrSliderInput
    \/ DelayedUpdateClick
    \/ ImmediateUpdateClick
    \/ ActivateClick
    \/ EcgShock
    \/ ApplyFn
    \/ AnimationFrameDelayed
    \/ LoopStep
    \/ LoopEnd

SpecDelayedUpdate == InitDelayedUpdate /\ [][NextDelayedUpdate]_vars

\* an Update click, a start or stop, or a shock executed by this client
SupersedingEvent ==
    lastOp' \in {"_handleUpdateVitalsClick", "_handleActivateClick",
                 "_executeShock"}

\* C29: a delayed update that is applied (and sent) is the one scheduled
\* last, it is applied while the engine runs and leaves no timeout behind;
\* after a later Update click, a start, a stop or a shock executed by this
\* client no timeout scheduled before that event is left to fire; no timeout
\* is scheduled twice.
C29_SupersededNeverApplied ==
    [][ /\ lastOp' = "applyFn" =>
              /\ Running
              /\ timers.updateTimeoutId # NoTimeout
              /\ timers.queue = {timers.updateTimeoutId}
              /\ timers'.queue = {}
              /\ timers'.updateTimeoutId = NoTimeout
        /\ SupersedingEvent =>
              /\ timers'.queue \cap timers.queue = {}
              /\ timers'.queue \subseteq {timers'.updateTimeoutId}
        /\ timers'.queue \ timers.queue \subseteq {timers.nextId}
        /\ timers'.nextId >= timers.nextId
      ]_vars

\* the second of two delayed updates has been applied 0.2 s or more into the
\* run: heart rate 120 is the interpolation target, no timeout is left
C29_Witness ==
    /\ Running
    /\ lastOp = "applyFn"
    /\ timers.nextId = 3
    /\ timers.queue = {}
    /\ monitor.rhythmTime >= 200
    /\ monitor.interpolationTargetParams.ecg.hr = 120000

\* a delayed update was scheduled and the engine stopped: the requested
\* heart rate 120 has not been applied and no timeout is left
C29_CancelledByStop ==
    /\ ~Running
    /\ lastOp = "_handleActivateClick"
    /\ timers.nextId = 2
    /\ timers.queue = {}
    /\ monitor.targetParams.ecg.hr = 120000
    /\ monitor.interpolationTargetParams.ecg.hr = 75000

(* ------------------------------------------------------------------ *)
(* Commands from connections that may not send them                    *)
(* ------------------------------------------------------------------ *)
\* the connection is a member of a session
InSession(sv, c) ==
    /\ sv.ws[c].sessionId \in SessionIds
    /\ sv.sessions[sv.ws[c].sessionId].exists
    /\ c \in sv.sessions[sv.ws[c].sessionId].clients

MaySend(sv, c) == InSession(sv, c) /\ sv.ws[c].role = "controller"

ErrorTo(c) == [type |-> "error", sender |-> c, to |-> {c}]

\* C30: a command is relayed only when its sender is a member of a session
\* with role controller, and then only to other members of that session; a
\* command from any other open connection reaches no other client, changes
\* nothing on the server and is answered by an error sent to its sender.
C30_OnlyControllersRelay ==
    /\ [](\A c \in Clients, type \in CommandTypes, valid \in PayloadValid :
              (server.ws[c].readyState = "OPEN" /\ ~MaySend(server, c)) =>
                  OnCommand(Received(server, c), c, type, valid) =
                      [server EXCEPT !.delivered = ErrorTo(c)])
    /\ [][ /\ server'.delivered.type \in CommandTypes =>
                  LET c == server'.delivered.sender
                  IN  /\ MaySend(server, c)
                      /\ server'.delivered.to \subseteq
                             server.sessions[server.ws[c].sessionId].clients
                                 \ {c}
           /\ server'.delivered.type = "error" =>
                  /\ server'.delivered.to = {server'.delivered.sender}
                  /\ server' = [server EXCEPT
                                   !.delivered = server'.delivered]
         ]_vars

\* ws2, a monitor in the session of controller ws1 and monitor ws3, has
\* sent a command: the only message sent is the error to ws2
C30_Witness ==
    /\ server.delivered = ErrorTo("ws2")
    /\ server.ws["ws2"].role = "monitor"
    /\ server.ws["ws1"].role = "controller"
    /\ server.ws["ws3"].role = "monitor"
    /\ server.ws["ws1"].sessionId = "AAAA"
    /\ server.ws["ws2"].sessionId = "AAAA"
    /\ server.ws["ws3"].sessionId = "AAAA"

\* a connection in no session has sent a command and got the error
C30_OutsiderRejected ==
    /\ server.delivered = ErrorTo("ws3")
    /\ server.ws["ws3"].sessionId = NoSession
    /\ server.ws["ws1"].role = "controller"
    /\ server.ws["ws2"].role = "monitor"
    /\ server.ws["ws1"].sessionId = server.ws["ws2"].sessionId

(* ------------------------------------------------------------------ *)
(* Membership on the server                                            *)
(* ------------------------------------------------------------------ *)
\* C31: a connection's sessionId is s exactly when the connection is in the
\* client set of the existing session s; a connection is in at most one
\* client set; a connection whose close handler has run, or that was cleaned
\* up (it left, errored or was terminated) and carries no session id, is in
\* no client set; the client set of a session that does not exist is empty.
C31_MembershipAgrees ==
    /\ \A c \in Clients, sid \in SessionIds :
           (server.ws[c].sessionId = sid)
               <=> (server.sessions[sid].exists
                    /\ c \in server.sessions[sid].clients)
    /\ \A c \in Clients :
           Cardinality({ sid \in SessionIds :
                            c \in server.sessions[sid].clients }) <= 1
    /\ \A c \in Clients :
           (server.ws[c].readyState = "NONE"
            \/ server.ws[c].sessionId = NoSession) =>
               \A sid \in SessionIds : c \notin server.sessions[sid].clients
    /\ \A c \in Clients : server.ws[c].sessionId \in SessionIds \cup {NoSession}

\* both sessions are kept while ws1 has closed and is in neither client set;
\* ws3 is in AAAA only and ws2 in BBBB only
C31_Witness ==
    /\ server.sessions["AAAA"].exists
    /\ server.sessions["AAAA"].adminToken = "tokA"
    /\ server.ws["ws1"].readyState = "NONE"
    /\ server.sessions["AAAA"].clients = {"ws3"}
    /\ server.sessions["BBBB"].exists
    /\ server.sessions["BBBB"].adminToken = "tokB"
    /\ server.sessions["BBBB"].clients = {"ws2"}
    /\ server.ws["ws2"].sessionId = "BBBB"
    /\ server.ws["ws3"].sessionId = "AAAA"

(* ------------------------------------------------------------------ *)
(* Sweep buffers behind the cursor                                     *)
(* ------------------------------------------------------------------ *)
\* the positions the cursor passes in this step
PassedPositions ==
    { i \in 0..(BUFFER_SIZE - 1) :
          (i - WrapIndex(monitor.sweepIndex, BUFFER_SIZE)) % BUFFER_SIZE
              < (monitor'.sweepIndex
                   - WrapIndex(monitor.sweepIndex, BUFFER_SIZE)) % BUFFER_SIZE }

\* C32: when the cursor advances during a run, by a logical step or by the
\* artifact burst of a shock, no position it passes keeps in any of the
\* three sweep buffers the sample it held before the cursor arrived: each
\* holds a value written in this step or null.
C32_NothingStaleBehindCursor ==
    [][ (Running /\ lastOp' \in {"updateWaveforms", "_executeShock"}) =>
            \A i \in PassedPositions :
                /\ monitor'.buffers.sweepBufferECG[i] \in {"sample", "shock"}
                /\ (lastOp' = "updateWaveforms" =>
                        /\ monitor'.buffers.sweepBufferSpO2[i] = "sample"
                        /\ monitor'.buffers.sweepBufferABP[i] = "sample")
                /\ (lastOp' = "_executeShock" =>
                        /\ monitor'.buffers.sweepBufferSpO2[i] = "null"
                        /\ monitor'.buffers.sweepBufferABP[i] = "null")
      ]_vars

\* as coded: the burst writes the ECG buffer only; the SpO2 and ABP buffers
\* keep at the passed positions what they held, and a logical step writes
\* all three
C32_BurstWritesEcgOnly ==
    [][ (Running /\ lastOp' \in {"updateWaveforms", "_executeShock"}) =>
            \A i \in PassedPositions :
                /\ monitor'.buffers.sweepBufferECG[i] \in {"sample", "shock"}
                /\ (lastOp' = "updateWaveforms" =>
                        /\ monitor'.buffers.sweepBufferSpO2[i] = "sample"
                        /\ monitor'.buffers.sweepBufferABP[i] = "sample")
                /\ (lastOp' = "_executeShock" =>
                        /\ monitor'.buffers.sweepBufferSpO2[i]
                               = monitor.buffers.sweepBufferSpO2[i]
                        /\ monitor'.buffers.sweepBufferABP[i]
                               = monitor.buffers.sweepBufferABP[i])
      ]_vars

\* after a shock in the second sweep the SpO2 buffer holds, behind the
\* cursor and next to artifact samples of the ECG buffer, samples of the
\* sweep before
C32_StaleAfterShock ==
    /\ Running /\ lastOp = "_executeShock"
    /\ monitor.rhythmTime > BUFFER_SIZE * StepMs
    /\ \E i \in 0..(BUFFER_SIZE - 1) :
           /\ monitor.buffers.sweepBufferECG[i] = "shock"
           /\ monitor.buffers.sweepBufferSpO2[i] = "sample"
           /\ monitor.buffers.sweepBufferABP[i] = "sample"

(* ------------------------------------------------------------------ *)
(* The erase gap ahead of the cursor                                   *)
(* ------------------------------------------------------------------ *)
\* the position the step wrote holds its sample and the GAP_SAMPLES - 1
\* positions after it, wrapping at the end of the buffer, hold null
GapAhead(buf, size, cursor) ==
    /\ cursor \in 1..size
    /\ buf[cursor - 1] = "sample"
    /\ \A j \in 0..(GAP_SAMPLES - 2) : buf[(cursor + j) % size] = "null"

\* C33: after every logical step, in each of the four sweep buffers the
\* position just written holds the step's sample and the rest of the gap
\* run (the GAP_SAMPLES - 1 positions from the advanced cursor on, wrapping
\* around at the end of the buffer) holds null.
C33_GapAheadOfCursor ==
    lastOp = "updateWaveforms" =>
        /\ GapAhead(monitor.buffers.sweepBufferECG, BUFFER_SIZE,
                    monitor.sweepIndex)
        /\ GapAhead(monitor.buffers.sweepBufferSpO2, BUFFER_SIZE,
                    monitor.sweepIndex)
        /\ GapAhead(monitor.buffers.sweepBufferABP, BUFFER_SIZE,
                    monitor.sweepIndex)
        /\ GapAhead(monitor.buffers.sweepBufferETCO2, ETCO2_BUFFER_SIZE,
                    monitor.etco2SweepIndex)

\* a step of the second sweep near the end of the buffer: the gap wraps
\* around to the start, and the position after the gap still holds a sample
\* of the first sweep
C33_Witness ==
    /\ lastOp = "updateWaveforms"
    /\ monitor.rhythmTime > BUFFER_SIZE * StepMs
    /\ monitor.sweepIndex = BUFFER_SIZE - 3
    /\ monitor.buffers.sweepBufferSpO2[BUFFER_SIZE - 4] = "sample"
    /\ monitor.buffers.sweepBufferSpO2[0] = "null"
    /\ monitor.buffers.sweepBufferSpO2[GAP_SAMPLES - 5] = "null"
    /\ monitor.buffers.sweepBufferSpO2[GAP_SAMPLES - 4] = "sample"

(* ------------------------------------------------------------------ *)
(* What reaches the sweep buffers: the writes of _manageSweepBuffer    *)
(* and of the artifact loop, for any value a generator may hand over   *)
(* ------------------------------------------------------------------ *)
JsValues ==
    {NegInfinity, -2000, 0, 1500, Infinity, NaN, Undefined, JsonNull}

NothingStored ==
    [ecg |-> JsonNull, spo2 |-> JsonNull, abp |-> JsonNull,
     etco2 |-> JsonNull]

InitStore ==
    /\ normalBaseHR = 75
    /\ currentRole = "controller"
    /\ monitor = NewMonitor
    /\ chaotic = NewChaotic
    /\ pc = "idle"
    /\ frameDelta = 0
    /\ frameSteps = 0
    /\ lastOp = "constructor"
    /\ boundary = NoBoundary
    /\ opCount = 0
    /\ server = NewServer
    /\ timers = NoTimers
    /\ network = NoNetwork
    /\ \E e \in JsValues, s \in JsValues, a \in JsValues, c \in JsValues :
           sample = [fn |-> "updateWaveforms", ecgValue |-> e,
                     spo2Value |-> s, abpValue |-> a, etco2Value |-> c,
                     stored |-> NothingStored, returned |-> FALSE]

\* the four writes at the cursor in _manageSweepBuffer
StoreSamples ==
    /\ ~sample.returned
    /\ sample' =
           [sample EXCEPT
               !.fn = "_manageSweepBuffer",
               !.stored =
                   [ecg   |-> ensureFinite(sample.ecgValue, JsonNull),
                    spo2  |-> ensureFinite(sample.spo2Value, JsonNull),
                    abp   |-> ensureFinite(sample.abpValue, JsonNull),
                    etco2 |-> ensureFinite(sample.etco2Value, JsonNull)],
               !.returned = TRUE]
    /\ UNCHANGED <<engineVars, server, timers, network>>

\* the write of the artifact loop in _executeShock
StoreArtifact ==
    /\ ~sample.returned
    /\ sample' =
           [sample EXCEPT
               !.fn = "_executeShock",
               !.stored = [NothingStored EXCEPT
                              !.ecg = ensureFinite(sample.ecgValue, 0)],
               !.returned = TRUE]
    /\ UNCHANGED <<engineVars, server, timers, network>>

NextStore == StoreSamples \/ StoreArtifact

SpecStore == InitStore /\ [][NextStore]_vars

NullOrFinite(v) == v = JsonNull \/ NumberIsFinite(v)

MaxNibpTime == 400
\* requested systolic / diastolic pressures set up before activation
NibpPressures == {<<120000, 80000>>, <<20000, 10000>>, <<60500, 70000>>}
\* new Date() of a measurement
MeasurementTimes == {1, 2}
\* nibpData of a message: a measurement, a failed one, or none
RemoteNibpData ==
    {[sys |-> 110000, dia |-> 70000, map |-> 83000, timestamp |-> 1],
     [sys |-> JsonNull, dia |-> JsonNull, map |-> JsonNull,
      timestamp |-> JsonNull]}

InitNibp ==
    /\ normalBaseHR = 75
    /\ currentRole \in Roles
    /\ \E p \in NibpPressures :
           monitor =
               _handleUpdateVitalsClick(
                   [NewMonitor EXCEPT !.targetParams.abp.sys = p[1],
                                      !.targetParams.abp.dia = p[2]])
    /\ chaotic = NewChaotic
    /\ pc = "idle"
    /\ frameDelta = 0
    /\ frameSteps = 0
    /\ lastOp = "constructor"
    /\ boundary = NoBoundary
    /\ opCount = 0
    /\ server = NewServer
    /\ sample = NoSample
    /\ timers = NoTimers
    /\ network = NoNetwork

\* the Start NIBP button
NibpStart ==
    \E t \in MeasurementTimes :
        Operate("_handleNibpStart", _handleNibpStart(monitor, t))

\* a nibp_trigger message; the network layer hands it on for role monitor
RemoteNibpTrigger ==
    /\ currentRole = "monitor"
    /\ \E d \in RemoteNibpData \cup {Null} :
           Operate("handleRemoteNibpTrigger",
                   handleRemoteNibpTrigger(monitor, d))

AnimationFrameNibp == AnimationFrameOf(FrameDeltas, MaxNibpTime)

NextNibp ==
    \/ NibpStart
    \/ RemoteNibpTrigger
    \/ ActivateClick
    \/ RemoteActivate
    \/ AnimationFrameNibp
    \/ LoopStep
    \/ LoopEnd

SpecNibp == InitNibp /\ [][NextNibp]_vars

NibpStep == lastOp' \in {"_handleNibpStart", "handleRemoteNibpTrigger"}

\* C35: a measurement, started on this client or received from the session,
\* writes the NIBP record of `current` and of the requested target and
\* nothing else: the interpolation target, every other channel's values,
\* the sweep buffers and cursors, the schedules and clocks, the pending flags
\* and snapshots, the generator states and the running flag are as before.
C35_OnlyNibpFieldsChange ==
    [][ NibpStep =>
            /\ [monitor' EXCEPT
                   !.currentParams.nibp = monitor.currentParams.nibp,
                   !.targetParams.nibp = monitor.targetParams.nibp] = monitor
            /\ monitor'.currentParams.nibp = monitor'.targetParams.nibp
            /\ chaotic' = chaotic
            /\ timers' = timers
            /\ pc' = pc
      ]_vars

\* a measurement taken 0.2 s or more into a run with 120 / 80 requested:
\* `current` shows 120 / 80 (93)
C35_Witness ==
    /\ Running
    /\ lastOp = "_handleNibpStart"
    /\ monitor.rhythmTime >= 200
    /\ monitor.currentParams.nibp.sys = 120000
    /\ monitor.currentParams.nibp.dia = 80000
    /\ monitor.currentParams.nibp.map = 93000
    /\ monitor.interpolationTargetParams.nibp = NoNibp

\* a measurement received from the session during a run
C35_RemoteMeasurement ==
    /\ Running
    /\ currentRole = "monitor"
    /\ lastOp = "handleRemoteNibpTrigger"
    /\ monitor.rhythmTime >= 200
    /\ monitor.currentParams.nibp.map = 83000
    /\ monitor.targetParams.nibp.map = 83000

(* ------------------------------------------------------------------ *)
(* Ending a session                                                    *)
(* ------------------------------------------------------------------ *)
NextEndSession ==
    \/ Connect
    \/ CreateSession
    \/ JoinSession
    \/ SetRole
    \/ EndSession

SpecEndSession == InitRelay /\ [][NextEndSession]_vars

\* the request names an existing session and carries its admin token
TokenMatches(sv, sid, providedToken) ==
    /\ sid \in SessionIds
    /\ sv.sessions[sid].exists
    /\ providedToken # NoToken
    /\ providedToken = sv.sessions[sid].adminToken

\* C36: for every open connection, session id and token an end_session
\* request can carry: the session is deleted only when the token is the one
\* stored at its creation; with a missing or different token the sessions,
\* their client sets and every connection's session id and role stay as they
\* are and the sender gets an error; with the right token the session is
\* deleted and its members carry no session id and no role.
C36_EndOnlyWithAdminToken ==
    \A c \in Clients, sid \in JoinIds, providedToken \in RequestTokens :
        server.ws[c].readyState = "OPEN" =>
            LET after == OnEndSession(Received(server, c), c, sid, providedToken)
            IN  IF TokenMatches(server, sid, providedToken)
                THEN /\ ~after.sessions[sid].exists
                     /\ \A m \in server.sessions[sid].clients :
                            /\ after.ws[m].sessionId = NoSession
                            /\ after.ws[m].role = NoRole
                ELSE after = [server EXCEPT !.delivered = ErrorTo(c)]

\* ws3, a member of session AAAA (token tokA, controller ws1, monitor
\* ws2), has asked to end it without the token and got the error; the
\* session and its members are as they were
C36_Witness ==
    /\ server.delivered = ErrorTo("ws3")
    /\ server.sessions["AAAA"].exists
    /\ server.sessions["AAAA"].adminToken = "tokA"
    /\ server.sessions["AAAA"].clients = {"ws1", "ws2", "ws3"}
    /\ server.ws["ws1"].role = "controller"
    /\ server.ws["ws2"].role = "monitor"
    /\ ~server.sessions["BBBB"].exists

\* a session has been ended: no session exists while three open connections
\* carry no session id
C36_Ended ==
    /\ \A sid \in SessionIds : ~server.sessions[sid].exists
    /\ \A c \in Clients :
           /\ server.ws[c].readyState = "OPEN"
           /\ server.ws[c].sessionId = NoSession
    /\ server.delivered = NoDelivery

(* ------------------------------------------------------------------ *)
(* One page and the relay: connection, session, reconnection           *)
(* ------------------------------------------------------------------ *)
\* messages a page has sent and the server has not yet received
MaxInFlight == 1
\* clicks of the user and ends of connections explored in one run
MaxClientEvents == 6
\* event.code of a close event: normal, going away, abnormal
CloseCodes == {1000, 1001, 1006}

\* a WebSocket object the page can create next
FreeSockets ==
    { s \in Clients : /\ network.readyState[s] \in {"NONE", "CLOSED"}
                      /\ server.ws[s].readyState = "NONE" }

NewSocket == CHOOSE s \in FreeSockets : TRUE

\* messages of socket s are lost with its connection
WithoutSocket(queue, s) == SelectSeq(queue, LAMBDA m : m.socket # s)

Reply(type, c, sessionId, role) ==
    [type |-> type, socket |-> c, sessionId |-> sessionId, role |-> role]

\* a handler of the page or of the server has run; count is 1 for a click
\* of the user and for the end of a connection, which are counted
ClientStep(n, sv, role, op, count) ==
    /\ network' = n
    /\ server' = sv
    /\ currentRole' = role
    /\ lastOp' = op
    /\ opCount + count <= MaxClientEvents
    /\ opCount' = opCount + count
    /\ UNCHANGED <<monitor, chaotic, normalBaseHR, pc, frameDelta,
                   frameSteps, boundary, sample, timers>>

\* initializeNetwork() has run: the role is the checked radio button and
\* the first socket is connecting
InitClient ==
    /\ normalBaseHR = 75
    /\ currentRole \in ClientRoles
    /\ monitor = NewMonitor
    /\ chaotic = NewChaotic
    /\ pc = "idle"
    /\ frameDelta = 0
    /\ frameSteps = 0
    /\ lastOp = "initializeNetwork"
    /\ boundary = NoBoundary
    /\ opCount = 0
    /\ server = NewServer
    /\ sample = NoSample
    /\ timers = NoTimers
    /\ network = connectWebSocket(NoNetwork, "ws1")

\* the connection of socket s is established: wss.on('connection') on the
\* server, ws.onopen on the page
SocketOpens ==
    \E s \in Clients :
        /\ network.dialog = "none"
        /\ network.readyState[s] = "CONNECTING"
        /\ ClientStep(onopen([network EXCEPT !.readyState[s] = "OPEN"],
                             currentRole),
                      [Reset(server) EXCEPT !.ws[s] = NewConnection],
                      currentRole, "onopen", 0)

\* the closing handshake of socket s starts (the other end has sent a Close
\* frame): readyState is CLOSING until the connection is closed
ClosingStarts ==
    \E s \in Clients :
        /\ network.readyState[s] = "OPEN"
        /\ ClientStep([network EXCEPT !.readyState[s] = "CLOSING"], server,
                      currentRole, lastOp, 0)

\* the connection of socket s closes or fails: the browser sets its
\* readyState to CLOSED and fires error (when the connection failed) and
\* close in one task; the server's close handler runs later
ConnectionCloses ==
    \E s \in Clients, code \in CloseCodes, failed \in BOOLEAN :
        /\ network.dialog = "none"
        /\ network.readyState[s] \in {"CONNECTING", "OPEN", "CLOSING"}
        /\ failed => code = 1006
        /\ LET n0 == [network EXCEPT
                         !.readyState[s] = "CLOSED",
                         !.toServer = WithoutSocket(@, s),
                         !.toClient = WithoutSocket(@, s)]
               n1 == IF failed THEN onerror(n0) ELSE n0
           IN  ClientStep(onclose(n1, code),
                          IF server.ws[s].readyState = "OPEN"
                          THEN [Reset(server) EXCEPT
                                   !.ws[s].readyState = "CLOSED"]
                          ELSE Reset(server),
                          currentRole, "onclose", 1)

\* the callback of scheduleReconnection's timeout
ReconnectTimerExpires ==
    \E id \in network.timeouts :
        /\ network.dialog = "none"
        /\ FreeSockets # {}
        /\ ClientStep(connectWebSocket(
                          [network EXCEPT !.timeouts = @ \ {id},
                                          !.reconnectTimerId = NoTimeout],
                          NewSocket),
                      server, currentRole, "reconnectTimer", 0)

\* the user clicks Create Session
CreateSessionClick ==
    /\ network.dialog = "none"
    /\ network.currentSessionId = NoSession
    /\ Len(network.toServer) + Len(network.toClient) < MaxInFlight
    /\ ClientStep(handleCreateSession(network), server, "controller",
                  "handleCreateSession", 1)

\* the user enters a session id and clicks Join
JoinSessionClick ==
    \E sid \in SessionIds :
        /\ network.dialog = "none"
        /\ network.currentSessionId = NoSession
        /\ Len(network.toServer) + Len(network.toClient) < MaxInFlight
        /\ ClientStep(sendToServer(stopReconnectionAttempts(network),
                                   "join_session", sid, NoRole),
                      server, currentRole, "handleJoinSession", 1)

\* the controller's panel sends a command
SendCommand ==
    /\ network.dialog = "none"
    /\ currentRole = "controller"
    /\ Len(network.toServer) + Len(network.toClient) < MaxInFlight
    /\ ClientStep(sendToServer(network, "param_update", NoSession, NoRole),
                  server, currentRole, "sendMessage", 1)

\* ws.on('message') of the server for the oldest message in flight, with
\* the reply it sends to the sender
ServerReceives ==
    /\ network.toServer # <<>>
    /\ LET m == Head(network.toServer)
           c == m.socket
           n == [network EXCEPT !.toServer = Tail(@)]
           sv == Received(server, c)
           Answer(sv1, reply) ==
               ClientStep([n EXCEPT !.toClient = Append(@, reply)], sv1,
                          currentRole, lastOp, 0)
       IN  /\ server.ws[c].readyState = "OPEN"
           /\ CASE m.type = "create_session" ->
                     \E id \in GeneratedIds(cleanupClientConnection(sv, c)),
                        adminToken \in {"tokA"} :
                         Answer(OnCreateSession(sv, c, id, adminToken),
                                IF id = NoSession
                                THEN Reply("error", c, NoSession, NoRole)
                                ELSE Reply("session_created", c, id, NoRole))
                [] m.type = "join_session" ->
                     Answer(OnJoinSession(sv, c, m.sessionId),
                            IF sv.sessions[m.sessionId].exists
                            THEN Reply("session_joined", c, m.sessionId,
                                       NoRole)
                            ELSE Reply("session_not_found", c, m.sessionId,
                                       NoRole))
                [] m.type = "set_role" ->
                     Answer(OnSetRole(sv, c, m.role),
                            IF sv.ws[c].sessionId = NoSession
                            THEN Reply("error", c, NoSession, NoRole)
                            ELSE Reply("role_set", c, NoSession, m.role))
                [] OTHER ->
                     LET sv1 == OnCommand(sv, c, m.type, TRUE)
                     IN  IF sv1.delivered.type = "error"
                         THEN Answer(sv1, Reply("error", c, NoSession, NoRole))
                         ELSE ClientStep(n, sv1, currentRole, lastOp, 0)

\* ws.onmessage of the page for the oldest message in flight
ClientReceives ==
    /\ network.dialog = "none"
    /\ network.toClient # <<>>
    /\ LET m == Head(network.toClient)
           n == [network EXCEPT !.toClient = Tail(@)]
       IN  /\ network.readyState[m.socket] = "OPEN"
           /\ ClientStep(handleServerMessage(n, currentRole, m), Reset(server),
                         IF m.type = "role_set" /\ m.role # currentRole
                         THEN m.role ELSE currentRole,
                         m.type, 0)

\* the user closes the dialog of alert()
DismissAlert ==
    /\ network.dialog \in {"alert", "error"}
    /\ ClientStep(AfterAlert(network, currentRole), server, currentRole,
                  "alert", 0)

\* window.location.reload(): the browser closes the page's sockets and
\* clears its timeouts, the script loads again and initializeNetwork runs
Reload ==
    /\ network.dialog = "reload"
    /\ \E role \in ClientRoles :
          LET closed == [s \in Clients |->
                            IF network.readyState[s] = "NONE" THEN "NONE"
                            ELSE "CLOSED"]
              sv == [Reset(server) EXCEPT !.ws =
                        [c \in Clients |->
                            IF @[c].readyState = "OPEN"
                            THEN [@[c] EXCEPT !.readyState = "CLOSED"]
                            ELSE @[c]]]
              free == { s \in Clients : sv.ws[s].readyState = "NONE" }
          IN  /\ free # {}
              /\ ClientStep(connectWebSocket(
                                [NoNetwork EXCEPT !.readyState = closed],
                                CHOOSE s \in free : TRUE),
                            sv, role, "initializeNetwork", 0)

NextClient ==
    \/ SocketOpens
    \/ ClosingStarts
    \/ ConnectionCloses
    \/ ReconnectTimerExpires
    \/ CreateSessionClick
    \/ JoinSessionClick
    \/ SendCommand
    \/ ServerReceives
    \/ ClientReceives
    \/ DismissAlert
    \/ Reload
    \/ OnClose
    \/ SessionCleanup

SpecClient == InitClient /\ [][NextClient]_vars

\* the event loop delivers the messages that are in flight
SpecClientLive ==
    SpecClient /\ WF_vars(ServerReceives) /\ WF_vars(ClientReceives)

\* a user who closes every dialog
SpecClientAttended == SpecClientLive /\ WF_vars(DismissAlert)

\* socket s has just opened while the page holds session sid, which the
\* page does only after a close that was not clean; the session is still
\* on the server
Reopened(s, sid) ==
    /\ lastOp = "onopen"
    /\ network.ws = s
    /\ network.readyState[s] = "OPEN"
    /\ network.currentSessionId = sid
    /\ server.sessions[sid].exists

Member(s, sid) ==
    /\ server.ws[s].sessionId = sid
    /\ s \in server.sessions[sid].clients

\* the page is in session sid through socket s with its role registered
Rejoined(s, sid) ==
    /\ Member(s, sid)
    /\ server.ws[s].role = currentRole

\* the connection has ended again or the session has been deleted
Gone(s, sid) ==
    \/ network.readyState[s] # "OPEN"
    \/ ~server.sessions[sid].exists

\* C37: after an unexpected disconnect in a session that still exists, once
\* the connection is open again the page eventually is a member of the
\* same session with its role registered on the server, without an action
\* of the user.
C37_RejoinsWithRole ==
    \A s \in Clients, sid \in SessionIds :
        Reopened(s, sid) ~> (Rejoined(s, sid) \/ Gone(s, sid))

\* without an action of the user the page becomes a member of the session
\* again
C37_RejoinsSession ==
    \A s \in Clients, sid \in SessionIds :
        Reopened(s, sid) ~> (Member(s, sid) \/ Gone(s, sid))

\* the page has re-joined its session over a second socket and stands in
\* alert("Joined session: ..."): the server has no role for the socket and
\* set_role is not sent before the user closes the dialog
C37_RoleWaitsForUser ==
    \E s \in Clients, sid \in SessionIds :
        /\ lastOp = "session_joined"
        /\ network.dialog = "alert"
        /\ network.ws = s
        /\ network.readyState[s] = "OPEN"
        /\ \E old \in Clients \ {s} : network.readyState[old] = "CLOSED"
        /\ network.currentSessionId = sid
        /\ network.toServer = <<>>
        /\ Member(s, sid)
        /\ server.ws[s].role = NoRole
        /\ currentRole = "controller"

(* ------------------------------------------------------------------ *)
(* server.js: the keep-alive check                                     *)
(* ------------------------------------------------------------------ *)
\* the count of checks is not kept beyond this
MaxSilentTicks == 3

\* ws.terminate(): the socket is closed, its close handler runs later
terminate(sv, c) == [sv EXCEPT !.ws[c].readyState = "CLOSED"]

\* the check with `ws.isAlive = false` left out
KeepAliveCheck_NoReset(sv, c) ==
    IF sv.ws[c].readyState = "NONE" THEN sv
    ELSE IF ~sv.ws[c].isAlive
    THEN terminate(cleanupClientConnection(sv, c), c)
    ELSE IF sv.ws[c].readyState = "OPEN"
    THEN [sv EXCEPT !.ws[c].pingPending = TRUE]
    ELSE terminate(cleanupClientConnection(sv, c), c)

\* the body of wss.clients.forEach in startKeepAlive for one socket; a
\* ping to a socket that is no longer open calls back with an error
KeepAliveCheck(sv, c) ==
    IF sv.ws[c].readyState = "NONE" THEN sv
    ELSE IF ~sv.ws[c].isAlive
    THEN terminate(cleanupClientConnection(sv, c), c)
    ELSE LET sv1 == [sv EXCEPT !.ws[c].isAlive = FALSE]
         IN  IF sv.ws[c].readyState = "OPEN"
             THEN [sv1 EXCEPT !.ws[c].pingPending = TRUE]
             ELSE terminate(cleanupClientConnection(sv1, c), c)

\* wss.clients.forEach of one interval
RECURSIVE KeepAliveInterval(_, _)
KeepAliveInterval(sv, rest) ==
    IF rest = {} THEN sv
    ELSE LET c == CHOOSE x \in rest : TRUE
         IN  KeepAliveInterval(KeepAliveCheck(sv, c), rest \ {c})

\* one more check has run for every socket the server holds
CountTick(sv) ==
    [sv EXCEPT !.ws =
        [c \in Clients |->
            IF server.ws[c].readyState = "NONE" THEN @[c]
            ELSE [@[c] EXCEPT !.silentTicks =
                                  IF @ < MaxSilentTicks THEN @ + 1 ELSE @]]]

\* ws.on('pong')
OnPong(sv, c) ==
    [sv EXCEPT !.ws[c].isAlive = TRUE, !.ws[c].pingPending = FALSE,
               !.ws[c].silentTicks = 0]

\* the callback of setInterval(..., PING_INTERVAL)
KeepAliveTick ==
    Serve(CountTick(KeepAliveInterval(Reset(server), Clients)))

\* the client's pong arrives
Pong ==
    \E c \in Clients :
        /\ server.ws[c].readyState = "OPEN"
        /\ server.ws[c].pingPending
        /\ Serve(OnPong(Reset(server), c))

NextKeepAlive ==
    \/ Connect
    \/ CreateSession
    \/ JoinSession
    \/ SetRole
    \/ Pong
    \/ KeepAliveTick
    \/ OnClose

SpecKeepAlive == InitRelay /\ [][NextKeepAlive]_vars

\* socket c is in no session
InNoSession(sv, c) ==
    /\ sv.ws[c].sessionId = NoSession
    /\ \A sid \in SessionIds : c \notin sv.sessions[sid].clients

\* C38: a connection that neither answers a ping nor sends a message
\* during two consecutive keep-alive intervals is terminated and removed
\* from its session: no open connection has been through two checks since
\* the server last heard from it, and a connection a check closes is in no
\* session afterwards. A connection that answers every ping is never
\* terminated by the check: a check closes only a connection whose last
\* ping is unanswered.
C38_SilentTerminatedAnsweringKept ==
    /\ [](\A c \in Clients :
             server.ws[c].readyState = "OPEN"
                 => server.ws[c].silentTicks < 2)
    /\ [][\A c \in Clients :
             (server.ws[c].readyState = "OPEN"
                  /\ server'.ws[c].readyState = "CLOSED")
                 => /\ server.ws[c].pingPending
                    /\ server.ws[c].silentTicks = 1
                    /\ InNoSession(server', c)
       ]_vars

\* of two members of a session the one that stayed silent through two
\* checks has been terminated and is out of the session; the one that
\* answered its ping is still a member
C38_Witness ==
    \E c1, c2 \in Clients, sid \in SessionIds :
        /\ server.ws[c1].readyState = "CLOSED"
        /\ server.ws[c1].silentTicks = 2
        /\ server.ws[c2].readyState = "OPEN"
        /\ server.ws[c2].isAlive
        /\ server.ws[c2].silentTicks = 0
        /\ server.ws[c2].role = "monitor"
        /\ server.sessions[sid].exists
        /\ server.sessions[sid].clients = {c2}
        /\ server.sessions[sid].adminToken # NoToken

(* ------------------------------------------------------------------ *)
(* AV block: the copy of the generator state made on every step         *)
(* ------------------------------------------------------------------ *)
\* the event times of a generator state
EventTimeFields ==
    {"lastPTime", "nextPTime", "lastQRSTime", "nextQRSTime",
     "nextEscapeBeatTime"}

\* a logical step that hands a state kept from the step before to the
\* generator
CopyStep ==
    /\ lastOp' = "updateWaveforms"
    /\ monitor.ecgState.initialized
    /\ monitor'.ecgState.initialized

\* C39: the state the AV-block generator receives at a step equals, field
\* by field, the state it returned at the step before, event times that are
\* infinite or minus infinite included.
C39_CopyPreservesState ==
    [][CopyStep => JsonCopy(monitor.ecgState) = monitor.ecgState]_vars

\* what the copy does: every field is handed over as it was returned, but
\* an event time of Infinity or -Infinity arrives as null
C39_CopyPreservesFiniteFields ==
    [][CopyStep =>
          LET returned == monitor.ecgState
              received == JsonCopy(returned)
          IN  /\ DOMAIN received = DOMAIN returned
              /\ \A f \in DOMAIN returned :
                    IF f \in EventTimeFields
                          /\ returned[f] \in {Infinity, NegInfinity}
                    THEN received[f] = JsonNull
                    ELSE received[f] = returned[f]
      ]_vars

\* the generator has been handed a state whose time of the last
\* ventricular event, -Infinity when it was returned, had become null
C39_InfiniteTimeLost ==
    /\ lastOp = "updateWaveforms"
    /\ monitor.ecgState.initialized
    /\ monitor.ecgState.lastQRSTime = JsonNull
    /\ monitor.ecgState.nextEscapeBeatTime = JsonNull

\* the sockets of the page that are open or connecting
LiveSockets ==
    { s \in Clients : network.readyState[s] \in {"OPEN", "CONNECTING"} }

\* C40: on the page at most one reconnection timeout is pending and at
\* most one WebSocket is open or connecting at any moment: the pending
\* timeout is the one reconnectTimerId names and the live socket is the one
\* ws names.
C40_OneTimerOneSocket ==
    /\ Cardinality(network.timeouts) <= 1
    /\ Cardinality(LiveSockets) <= 1
    /\ network.timeouts \subseteq {network.reconnectTimerId}
    /\ LiveSockets \subseteq {network.ws}

\* a reconnection: the first socket has closed, the timeout has fired and
\* the second socket is connecting
C40_Witness ==
    /\ lastOp = "reconnectTimer"
    /\ network.readyState["ws1"] = "CLOSED"
    /\ network.ws # NoSocket
    /\ network.ws # "ws1"
    /\ network.readyState[network.ws] = "CONNECTING"
    /\ network.timeouts = {}
    /\ network.currentSessionId # NoSession

\* a second reconnection is waiting for its timeout
C40_TimerPending ==
    /\ lastOp = "onclose"
    /\ network.ws = NoSocket
    /\ LiveSockets = {}
    /\ Cardinality(network.timeouts) = 1
    /\ Cardinality({ s \in Clients : network.readyState[s] = "CLOSED" }) = 2

====
